---------------------------- MODULE Spec2Model ----------------------------
(***************************************************************************)
(* Time-structure analysis of xplt (src/xplt/timestructure.py).            *)
(*                                                                         *)
(* Timestamps are integers (ticks of an arbitrary time unit).  Every       *)
(* derived real number (bin width, quotient, mean) is an exact rational    *)
(* <<num, den>>; a denominator of 0 stands for the IEEE-754 non-finite     *)
(* values numpy produces on a division by zero: <<0,0>> is nan, <<1,0>> is *)
(* +inf and <<-1,0>> is -inf.  Rounding errors of float64 are not          *)
(* modelled.  Python arrays are sequences; array index i is position i+1.  *)
(***************************************************************************)
EXTENDS Integers, Sequences, FiniteSets, TLC

\* ------------------------------------------------------------------ bounds
\* calls of binned_timeseries: timestamps, range limits, bins, data values
MaxLen == 2
MaxT == 2
MaxRange == 3
MaxN == 2
MaxWhat == 1
\* plots: particles and their arrival times
MaxParticles == 2
MaxSpan == 3
\* particles: their number, longitudinal positions and turns
MaxBunch == 2
MaxZeta == 1
MaxTurn == 1
\* plots: arguments
MaxTmax == 2
MaxBinTime == 1
MaxBinWidth == 2
MaxBinCount == 2
MaxCountingDt == 1
MaxCountingBins == 5
MaxEvaluateDt == 1
MaxEvaluateBins == 2
MaxFmax == 1
MaxFrev == 1
\* repeated updates: further calls, particles per call and their arrival times
MaxCalls == 2
MaxCallParticles == 2
MaxCallSpan == 2

\* ------------------------------------------------------------ Python None
None == <<>>
Some(x) == <<x>>
Val(o) == o[1]

\* ------------------------------------------------------------- arithmetic
Abs(x) == IF x < 0 THEN -x ELSE x
Sign(x) == IF x < 0 THEN -1 ELSE IF x = 0 THEN 0 ELSE 1

RECURSIVE GCD(_, _)
GCD(a, b) == IF b = 0 THEN a ELSE GCD(b, a % b)

\* the rational p/d in lowest terms with a positive denominator;
\* p/0 is nan (p = 0), +inf (p > 0) or -inf (p < 0)
Rat(p, d) ==
    IF d = 0 THEN <<Sign(p), 0>>
    ELSE LET g == GCD(Abs(p), Abs(d))
             s == Sign(d)
         IN  <<(s * p) \div g, (s * d) \div g>>

RInt(k) == <<k, 1>>
NaN == <<0, 0>>
IsFinite(q) == q[2] # 0
IsNaN(q) == q = NaN

\* float division: finite / finite (x/0 is nan or +-inf), finite / inf is 0
RDiv(a, b) ==
    IF ~IsFinite(a) \/ ~IsFinite(b)
    THEN IF IsNaN(a) \/ IsNaN(b) THEN NaN
         ELSE IF ~IsFinite(a) /\ ~IsFinite(b) THEN NaN
         ELSE IF ~IsFinite(a) THEN <<a[1] * (IF b[1] < 0 THEN -1 ELSE 1), 0>>
         ELSE <<0, 1>>
    ELSE Rat(a[1] * b[2], a[2] * b[1])

RMul(a, b) ==
    IF ~IsFinite(a) \/ ~IsFinite(b)
    THEN <<Sign(a[1]) * Sign(b[1]), 0>>
    ELSE Rat(a[1] * b[1], a[2] * b[2])

RAdd(a, b) ==
    IF ~IsFinite(a) \/ ~IsFinite(b)
    THEN IF IsNaN(a) \/ IsNaN(b) THEN NaN
         ELSE IF ~IsFinite(a) /\ ~IsFinite(b)
              THEN (IF a = b THEN a ELSE NaN)
         ELSE IF ~IsFinite(a) THEN a ELSE b
    ELSE Rat(a[1] * b[2] + b[1] * a[2], a[2] * b[2])

RNeg(a) == <<-a[1], a[2]>>
RSub(a, b) == RAdd(a, RNeg(b))

\* comparisons of finite rationals
RLt(a, b) == a[1] * b[2] < b[1] * a[2]
RLe(a, b) == a[1] * b[2] <= b[1] * a[2]

\* floor, ceil and truncation toward zero of a finite rational
RFloor(q) == q[1] \div q[2]
RCeil(q) == -((-q[1]) \div q[2])
RTrunc(q) == IF q[1] >= 0 THEN q[1] \div q[2] ELSE -((-q[1]) \div q[2])

\* ----------------------------------------------------------------- arrays
Range(s) == {s[j] : j \in DOMAIN s}
NpMin(s) == CHOOSE x \in Range(s) : \A y \in Range(s) : x <= y
NpMax(s) == CHOOSE x \in Range(s) : \A y \in Range(s) : x >= y
Max2(a, b) == IF a >= b THEN a ELSE b

RECURSIVE NpSum(_)
NpSum(s) == IF s = <<>> THEN 0 ELSE s[1] + NpSum(Tail(s))

\* s[mask]: the elements of s at the positions where mask is true
RECURSIVE Masked(_, _)
Masked(s, m) ==
    IF s = <<>> THEN <<>>
    ELSE (IF m[1] THEN <<s[1]>> ELSE <<>>) \o Masked(Tail(s), Tail(m))

\* s[:k] for 0 <= k
Take(s, k) == SubSeq(s, 1, IF k < Len(s) THEN k ELSE Len(s))

RECURSIVE Zeros(_)
Zeros(k) ==
    IF k <= 0 THEN <<>>
    ELSE IF k = 1 THEN <<0>>
    ELSE Zeros(k \div 2) \o Zeros(k - k \div 2)

\* ------------------------------------------------- float -> int conversion
\* the extreme values of the target integer type (stand-ins: only their
\* position outside every bin index matters)
IntMin == -2147483647
IntMax == 2147483647
Platforms == {"x86_64", "aarch64"}

\* ndarray.astype(int): truncation toward zero for a finite value; the
\* conversion of nan and +-inf is undefined and gives what the machine's
\* conversion instruction gives
AsTypeInt(q, pf) ==
    IF IsFinite(q) THEN RTrunc(q)
    ELSE IF pf = "x86_64" THEN IntMin
    ELSE IF IsNaN(q) THEN 0
    ELSE IF q[1] > 0 THEN IntMax ELSE IntMin

\* ------------------------------------------------------ binned_timeseries
\* the range rg is None or a pair <<lo, hi>> whose components are None or Some(t)
TMin(ts, rg) ==
    IF rg = None \/ rg[1] = None THEN NpMin(ts) ELSE Val(rg[1])

TMax(ts, rg) ==
    IF rg = None \/ rg[2] = None THEN NpMax(ts) ELSE Val(rg[2])

Dt(ts, nb, rg) == RDiv(RInt(TMax(ts, rg) - TMin(ts, rg)), RInt(nb))

\* bins = ((times - t_min) / dt).astype(int)
Bins(ts, nb, rg, pf) ==
    [j \in DOMAIN ts |->
        AsTypeInt(RDiv(RInt(ts[j] - TMin(ts, rg)), Dt(ts, nb, rg)),
                  pf)]

\* variant of BinMask that also ignores the first bin
BinMask_StrictLower(b, nb) == [j \in DOMAIN b |-> b[j] > 0 /\ b[j] < nb]

\* mask = (bins >= 0) & (bins < n)
BinMask(b, nb) == [j \in DOMAIN b |-> b[j] >= 0 /\ b[j] < nb]

\* np.bincount(x, minlength): out[b] is the number of occurrences of b in x,
\* for an array x of non-negative integers; len(out) = max(minlength, max(x)+1)
RECURSIVE BinCountInto(_, _)
BinCountInto(out, x) ==
    IF x = <<>> THEN out
    ELSE BinCountInto([out EXCEPT ![x[1] + 1] = @ + 1], Tail(x))

BinCount(x, minlength) ==
    BinCountInto(Zeros(IF x = <<>> THEN minlength
                       ELSE Max2(minlength, NpMax(x) + 1)), x)

\* np.add.at(v, idx, w): v[idx[k]] += w[k] for every k, in order
RECURSIVE AddAt(_, _, _)
AddAt(v, idx, w) ==
    IF idx = <<>> THEN v
    ELSE AddAt([v EXCEPT ![idx[1] + 1] = @ + w[1]], Tail(idx), Tail(w))

\* variant of DivideByCounts that divides every bin, empty or not
DivideByCounts_Unguarded(v, c) ==
    [i \in DOMAIN v |-> RDiv(RInt(v[i]), RInt(c[i]))]

\* v[counts > 0] /= counts[counts > 0]
DivideByCounts(v, c) ==
    [i \in DOMAIN v |->
        IF c[i] > 0 THEN RDiv(RInt(v[i]), RInt(c[i])) ELSE RInt(v[i])]

binned_timeseries(ts, nb, w0, rg, pf) ==
    LET t_min == TMin(ts, rg)
        dt == Dt(ts, nb, rg)
        bins0 == Bins(ts, nb, rg, pf)
        inside == BinMask(bins0, nb)
        bins == Masked(bins0, inside)
        counts == Take(BinCount(bins, nb), nb)
    IN  IF w0 = None
        THEN [t_min |-> t_min, dt |-> dt, values |-> counts]
        ELSE [t_min |-> t_min, dt |-> dt,
              values |-> DivideByCounts(AddAt(Zeros(nb), bins, Masked(Val(w0), inside)),
                                        counts)]

\* ---------------------------------------------------- Python and numpy
\* round(x) of a finite float: to the nearest integer, ties to the even one
PyRound(q) ==
    LET fl == RFloor(q)
        twice == RSub(RMul(RInt(2), q), RInt(2 * fl))   \* 2 * (q - fl) in [0, 2)
    IN  IF RLt(twice, RInt(1)) THEN fl
        ELSE IF RLt(RInt(1), twice) THEN fl + 1
        ELSE IF fl % 2 = 0 THEN fl ELSE fl + 1

\* insertion of x into the ascending sequence s
RECURSIVE Insert(_, _)
Insert(x, s) ==
    IF s = <<>> THEN <<x>>
    ELSE IF x <= s[1] THEN <<x>> \o s
    ELSE <<s[1]>> \o Insert(x, Tail(s))

RECURSIVE Sorted(_)
RECURSIVE Sorted_Descending(_)
\* variant of Sorted that sorts in descending order
Sorted_Descending(s) ==
    IF s = <<>> THEN <<>>
    ELSE LET m == NpMax(s)
             k == CHOOSE j \in DOMAIN s : s[j] = m
         IN  <<m>> \o Sorted_Descending(SubSeq(s, 1, k - 1) \o SubSeq(s, k + 1, Len(s)))

\* sorted(s)
Sorted(s) == IF s = <<>> THEN <<>> ELSE Insert(s[1], Sorted(Tail(s)))

\* np.diff(s): the len(s) - 1 differences s[k+1] - s[k]
RECURSIVE NpDiff(_)
NpDiff(s) ==
    IF Len(s) <= 1 THEN <<>>
    ELSE <<s[2] - s[1]>> \o NpDiff(Tail(s))

\* np.linspace(lo, hi, num) for num >= 2
RECURSIVE LinspaceFrom(_, _, _, _)
LinspaceFrom(lo, step, k, num) ==
    IF k >= num THEN <<>>
    ELSE IF k + 1 = num THEN <<RAdd(lo, RMul(RInt(k), step))>>
    ELSE LET mid == (k + num) \div 2
         IN  LinspaceFrom(lo, step, k, mid) \o LinspaceFrom(lo, step, mid, num)

Linspace(lo, hi, num) == LinspaceFrom(lo, RDiv(RSub(hi, lo), RInt(num - 1)), 0, num)

\* np.histogram(a, bins, range=(lo, hi)) with bins >= 1 equal-width bins and
\* lo < hi: the values outside [lo, hi] are left out, a value v gets the bin
\* index int((v - lo) / (hi - lo) * bins), and the index `bins` (v = hi) is
\* moved to the last bin
RECURSIVE HistIndices(_, _, _, _)
HistIndices(a, bins, lo, hi) ==
    IF a = <<>> THEN <<>>
    ELSE LET v == a[1]
             f == RTrunc(RMul(RDiv(RSub(v, lo), RSub(hi, lo)), RInt(bins)))
         IN  (IF RLe(lo, v) /\ RLe(v, hi)
              THEN <<IF f = bins THEN f - 1 ELSE f>>
              ELSE <<>>) \o HistIndices(Tail(a), bins, lo, hi)

NpHistogram(a, bins, lo, hi) ==
    [counts |-> BinCount(HistIndices(a, bins, lo, hi), bins),
     edges |-> Linspace(lo, hi, bins + 1)]

\* factor * s, elementwise
RECURSIVE Scaled(_, _)
Scaled(factor, s) ==
    IF s = <<>> THEN <<>>
    ELSE <<RMul(factor, RInt(s[1]))>> \o Scaled(factor, Tail(s))

\* ------------------------------------------------------- TimeIntervalPlot
DefaultBinCount == 100

\* __init__: round(tmax / bin_time), used when bin_time is given
IntervalRounds(a) == PyRound(RDiv(Val(a.tmax), Val(a.bin_time)))

\* __init__: None or Some(the exception raised for the keyword arguments a)
TimeIntervalPlotRaises(a) ==
    IF a.tmax = None THEN Some("ValueError")
    ELSE IF a.bin_time # None /\ ~a.exact_bin_time /\ IntervalRounds(a) = 0
    THEN Some("ZeroDivisionError")
    ELSE None

\* __init__: the fields of the object made from the keyword arguments a
TimeIntervalPlotInit(a) ==
    [_bin_time |->
        IF a.bin_time # None /\ ~a.exact_bin_time
        THEN Some(RDiv(Val(a.tmax), RInt(IntervalRounds(a))))
        ELSE a.bin_time,
     _bin_count |->
        IF a.bin_time = None /\ a.bin_count = None
        THEN Some(DefaultBinCount)
        ELSE a.bin_count,
     tmax |->
        IF a.bin_time # None /\ a.exact_bin_time
        THEN RMul(Val(a.bin_time), RInt(IntervalRounds(a)))
        ELSE Val(a.tmax),
     factor_t |-> a.factor_t]

\* property bin_time: self._bin_time or self.tmax / self._bin_count
IntervalBinTime(o) ==
    IF o._bin_time # None /\ Val(o._bin_time) # RInt(0)
    THEN Val(o._bin_time)
    ELSE RDiv(o.tmax, RInt(Val(o._bin_count)))

\* variant of IntervalBinCount that counts the bins begun below tmax and one more
IntervalBinCount_OneMore(o) == RFloor(RDiv(o.tmax, IntervalBinTime(o))) + 1

\* property bin_count: int(np.ceil(self.tmax / self.bin_time))
IntervalBinCount(o) == RCeil(RDiv(o.tmax, IntervalBinTime(o)))

\* delay = self.factor_for("t") * np.diff(sorted(times))
IntervalDelay(o, ts) == Scaled(o.factor_t, NpDiff(Sorted(ts)))

\* the steps given to the artist by update
IntervalSteps(o, ts) ==
    LET h == NpHistogram(IntervalDelay(o, ts), IntervalBinCount(o),
                         RInt(0), RMul(RInt(IntervalBinCount(o)), IntervalBinTime(o)))
    IN  [x |-> Append(h.edges, h.edges[Len(h.edges)]),
         y |-> <<0>> \o h.counts \o <<0>>]

\* ------------------------------------------------------ TimeVariationPlot
DefaultCountingBins == 10000
DefaultEvaluateBins == 100

\* real numbers that need a square root are kept symbolic: <<"rat", q>> is
\* the rational (or non-finite) q and <<"sqrt", q>> its square root
Num(q) == <<"rat", q>>
Sqrt(q) == <<"sqrt", q>>

\* __init__: the fields of the object made from the keyword arguments a;
\* on_y is the list of the metrics named by the argument metric
TimeVariationPlotInit(a) ==
    [counting_dt |-> a.counting_dt,
     counting_bins |->
        IF a.counting_dt = None /\ a.counting_bins = None
        THEN Some(DefaultCountingBins) ELSE a.counting_bins,
     evaluate_dt |-> a.evaluate_dt,
     evaluate_bins |->
        IF a.evaluate_dt = None /\ a.evaluate_bins = None
        THEN Some(DefaultEvaluateBins) ELSE a.evaluate_bins,
     on_y |-> a.metric,
     poisson |-> a.poisson,
     factor_t |-> a.factor_t]

\* self.counting_bins is used unless it is None or 0
HasCountingBins(o) == o.counting_bins # None /\ Val(o.counting_bins) # 0

\* ncbins = self.counting_bins or int(np.ceil((max - min) / self.counting_dt))
VariationNcbins(o, ts) ==
    IF HasCountingBins(o) THEN Val(o.counting_bins)
    ELSE RCeil(RDiv(RInt(NpMax(ts) - NpMin(ts)), Val(o.counting_dt)))

\* the quotient whose integer part is nebins
VariationNebinsQuotient(o, ts) ==
    IF o.evaluate_bins # None
    THEN RDiv(RInt(VariationNcbins(o, ts)), RInt(Val(o.evaluate_bins)))
    ELSE RDiv(RMul(RInt(VariationNcbins(o, ts)), Val(o.evaluate_dt)),
              RInt(NpMax(ts) - NpMin(ts)))

\* nebins = int(ncbins / self.evaluate_bins), or
\* nebins = int(ncbins * self.evaluate_dt / (max - min))
VariationNebins(o, ts) == RTrunc(VariationNebinsQuotient(o, ts))

\* the exception raised before the loop over the metrics, if any: np.max of
\* an empty array, int() of inf or nan
VariationSetupRaises(o, ts) ==
    IF ts = <<>> /\ (~HasCountingBins(o) \/ o.evaluate_bins = None)
    THEN Some("ValueError")
    ELSE IF ts = <<>> THEN None
    ELSE IF IsFinite(VariationNebinsQuotient(o, ts)) THEN None
    ELSE IF IsNaN(VariationNebinsQuotient(o, ts)) THEN Some("ValueError")
    ELSE Some("OverflowError")

\* a.reshape((-1, g)) for an array whose length is a multiple of g >= 1
RECURSIVE Reshape(_, _)
Reshape(a, g) ==
    IF a = <<>> THEN <<>>
    ELSE <<SubSeq(a, 1, g)>> \o Reshape(SubSeq(a, g + 1, Len(a)), g)

\* a[:stop:step] for stop >= 0 and step >= 1
RECURSIVE SliceFrom(_, _, _, _)
SliceFrom(a, k, stop, step) ==
    IF k >= stop \/ k >= Len(a) THEN <<>>
    ELSE <<a[k + 1]>> \o SliceFrom(a, k + step, stop, step)

SliceStep(a, stop, step) == SliceFrom(a, 0, stop, step)

\* N = counts[: int(len(counts) / nebins) * nebins].reshape((-1, nebins))
VariationWindows(counts, nebins) ==
    Reshape(Take(counts, RTrunc(Rat(Len(counts), nebins)) * nebins), nebins)

\* variant of VariationEdges whose slice stops at int(len(edges) / nebins) * nebins
VariationEdges_ShortStop(edges, nebins) ==
    SliceStep(edges, RTrunc(Rat(Len(edges), nebins)) * nebins, nebins)

\* edges = edges[: int(len(edges) / nebins + 1) * nebins : nebins]
VariationEdges(edges, nebins) ==
    SliceStep(edges, RTrunc(RAdd(Rat(Len(edges), nebins), RInt(1))) * nebins, nebins)

\* np.mean(row) and np.mean(row**2)
RECURSIVE SumSquares(_)
SumSquares(row) == IF row = <<>> THEN 0 ELSE row[1] * row[1] + SumSquares(Tail(row))

Mean(row) == RDiv(RInt(NpSum(row)), RInt(Len(row)))
MeanSquare(row) == RDiv(RInt(SumSquares(row)), RInt(Len(row)))

\* np.std(row)**2: the mean of the squared deviations from the mean
RECURSIVE SumSquaredDeviations(_, _)
SumSquaredDeviations(row, m) ==
    IF row = <<>> THEN RInt(0)
    ELSE RAdd(RMul(RSub(RInt(row[1]), m), RSub(RInt(row[1]), m)),
              SumSquaredDeviations(Tail(row), m))

\* variant of Variance with the sample variance (one degree of freedom less)
Variance_Sample(row) == RDiv(SumSquaredDeviations(row, Mean(row)), RInt(Len(row) - 1))

Variance(row) == RDiv(SumSquaredDeviations(row, Mean(row)), RInt(Len(row)))

Metrics == {"cv", "duty"}

\* variant of MetricValue whose duty factor is the inverse quotient
MetricValue_InvertedDuty(p, row) ==
    IF p = "cv"
    THEN Sqrt(RDiv(Variance(row), RMul(Mean(row), Mean(row))))
    ELSE Num(RDiv(MeanSquare(row), RMul(Mean(row), Mean(row))))

\* variant of MetricValue that reports 0 for a window without counts
MetricValue_ZeroGuard(p, row) ==
    IF NpSum(row) = 0 THEN Num(RInt(0))
    ELSE IF p = "cv"
    THEN Sqrt(RDiv(Variance(row), RMul(Mean(row), Mean(row))))
    ELSE Num(RDiv(RMul(Mean(row), Mean(row)), MeanSquare(row)))

\* F for one evaluation window
\*   cv:   np.std(N) / np.mean(N)
\*   duty: np.mean(N)**2 / np.mean(N**2)
MetricValue(p, row) ==
    IF p = "cv"
    THEN Sqrt(RDiv(Variance(row), RMul(Mean(row), Mean(row))))
    ELSE Num(RDiv(RMul(Mean(row), Mean(row)), MeanSquare(row)))

\* variant of PoissonValue whose cv reference is 1 / np.mean(N)
PoissonValue_NoRoot(p, row) ==
    IF p = "cv"
    THEN Num(RDiv(RInt(1), Mean(row)))
    ELSE Num(RDiv(RInt(1), RAdd(RInt(1), RDiv(RInt(1), Mean(row)))))

\* F_poisson for one evaluation window
\*   cv:   1 / np.mean(N)**0.5
\*   duty: 1 / (1 + 1 / np.mean(N))
PoissonValue(p, row) ==
    IF p = "cv"
    THEN Sqrt(RDiv(RInt(1), Mean(row)))
    ELSE Num(RDiv(RInt(1), RAdd(RInt(1), RDiv(RInt(1), Mean(row)))))

RECURSIVE MapMetric(_, _)
MapMetric(p, rows) ==
    IF rows = <<>> THEN <<>>
    ELSE <<MetricValue(p, rows[1])>> \o MapMetric(p, Tail(rows))

RECURSIVE MapPoisson(_, _)
MapPoisson(p, rows) ==
    IF rows = <<>> THEN <<>>
    ELSE <<PoissonValue(p, rows[1])>> \o MapPoisson(p, Tail(rows))

RECURSIVE ScaledR(_, _)
ScaledR(factor, a) ==
    IF a = <<>> THEN <<>>
    ELSE <<RMul(factor, a[1])>> \o ScaledR(factor, Tail(a))

\* the body of the loop for the metric p, up to the annotation: the fine
\* bins, the evaluation windows and their edges
VariationBinning(o, ts, pf) ==
    LET ncbins == VariationNcbins(o, ts)
        nebins == VariationNebins(o, ts)
        b == binned_timeseries(ts, ncbins, None, None, pf)
        edges0 == Linspace(RInt(b.t_min),
                           RAdd(RInt(b.t_min), RMul(b.dt, RInt(ncbins))), ncbins + 1)
        edges1 == VariationEdges(edges0, nebins)
    IN  [dt |-> b.dt,
         counts |-> b.values,
         N |-> VariationWindows(b.values, nebins),
         edges |-> ScaledR(o.factor_t, Append(edges1, edges1[Len(edges1)])),
         annotation |-> <<RMul(b.dt, RInt(nebins)), b.dt>>]

\* the exception raised in the loop for the metric p, if any, and whether
\* the annotation was made before it
VariationLoopRaises(o, ts, p) ==
    IF ts = <<>> THEN Some("ValueError")
    ELSE IF VariationNebins(o, ts) = 0 THEN Some("ZeroDivisionError")
    ELSE IF p \notin Metrics THEN Some("ValueError")
    ELSE None

VariationAnnotates(o, ts) == ts # <<>> /\ VariationNebins(o, ts) # 0

\* the data given to the artists of the metric p
VariationArtist(o, ts, p, pf) ==
    LET v == VariationBinning(o, ts, pf)
    IN  [step |-> Some([x |-> v.edges,
                        y |-> <<Num(RInt(0))>> \o MapMetric(p, v.N) \o <<Num(RInt(0))>>]),
         pstep |-> IF o.poisson
                   THEN Some([x |-> v.edges,
                              y |-> <<Num(RInt(0))>> \o MapPoisson(p, v.N)
                                        \o <<Num(RInt(0))>>])
                   ELSE None]

\* the loop over the metrics on_y[k..]: the artists after it, starting from
\* the artists arts; it stops at the first metric that raises
RECURSIVE VariationLoop(_, _, _, _, _)
VariationLoop(o, ts, pf, k, arts) ==
    IF k > Len(o.on_y) \/ VariationLoopRaises(o, ts, o.on_y[k]) # None THEN arts
    ELSE VariationLoop(o, ts, pf, k + 1,
                       [arts EXCEPT ![k] = VariationArtist(o, ts, o.on_y[k], pf)])

\* the first exception of the loop, if any
VariationRaises(o, ts) ==
    IF VariationSetupRaises(o, ts) # None THEN VariationSetupRaises(o, ts)
    ELSE IF \E k \in DOMAIN o.on_y : VariationLoopRaises(o, ts, o.on_y[k]) # None
    THEN VariationLoopRaises(o, ts,
             o.on_y[CHOOSE k \in DOMAIN o.on_y :
                       /\ VariationLoopRaises(o, ts, o.on_y[k]) # None
                       /\ \A h \in 1..(k - 1) :
                              VariationLoopRaises(o, ts, o.on_y[h]) = None])
    ELSE None

RECURSIVE EmptyArtists(_)
EmptyArtists(k) ==
    IF k <= 0 THEN <<>> ELSE Append(EmptyArtists(k - 1), [step |-> None, pstep |-> None])

\* ------------------------------------------------------------ TimeFFTPlot
\* int.bit_length(): the number of bits of the absolute value
RECURSIVE BitLength(_)
BitLength(x) == IF x = 0 THEN 0 ELSE 1 + BitLength(Abs(x) \div 2)

\* variant of NextPowerOfTwo that takes the bit length of n itself
NextPowerOfTwo_OfN(k) == 2 ^ BitLength(k)

\* 1 << (n - 1).bit_length()
NextPowerOfTwo(k) == 2 ^ BitLength(k - 1)

\* __init__: the fields of the object made from the keyword arguments a;
\* on_y is the list of the properties named by the argument kind
TimeFFTPlotInit(a) ==
    [_fmax |-> a.fmax,
     relative |-> a.relative,
     scaling |-> IF a.scaling # None THEN Val(a.scaling)
                 ELSE IF a.kind = <<"count">> THEN "pds" ELSE "amplitude",
     on_y |-> a.kind,
     _frev |-> a.frev,
     factor_f |-> a.factor_f,
     factor_p |-> a.factor_p,
     nbins |-> None]

\* ParticlePlotMixin.frev(particles) of a plot made without circumference
\* and without twiss: self._frev, which may be None
Frev(o) == o._frev

\* TimeFFTPlot.fmax(particles): None or Some(exception)
FmaxRaises(o) ==
    IF o._fmax = None /\ ~o.relative THEN Some("ValueError") ELSE None

\* TimeFFTPlot.fmax(particles): the value returned, which may be None
Fmax(o) == IF o._fmax # None THEN o._fmax ELSE Frev(o)

\* n = int(np.ceil((np.max(times) - np.min(times)) * fmax * 2))
FFTNRaw(o, ts) ==
    RCeil(RMul(RMul(RInt(NpMax(ts) - NpMin(ts)), Val(Fmax(o))), RInt(2)))

\* the exception raised before the loop over the properties, if any
FFTSetupRaises(o, ts) ==
    IF FmaxRaises(o) # None THEN FmaxRaises(o)
    ELSE IF ts = <<>> THEN Some("ValueError")
    ELSE IF Fmax(o) = None THEN Some("TypeError")
    ELSE None

RECURSIVE RfftFreqFrom(_, _, _)
RECURSIVE RfftFreqFrom_KeepDC(_, _, _)
\* variant of RfftFreqFrom that keeps the zero-frequency term and drops the
\* last one
RfftFreqFrom_KeepDC(k, nb, dt) ==
    IF k > nb \div 2 THEN <<>>
    ELSE <<RMul(RInt(k - 1), RDiv(RInt(1), RMul(RInt(nb), dt)))>>
             \o RfftFreqFrom_KeepDC(k + 1, nb, dt)

\* np.fft.rfftfreq(n, d=dt)[1:]: k / (n * dt) for k = 1 .. n // 2
RfftFreqFrom(k, nb, dt) ==
    IF k > nb \div 2 THEN <<>>
    ELSE <<RMul(RInt(k), RDiv(RInt(1), RMul(RInt(nb), dt)))>>
             \o RfftFreqFrom(k + 1, nb, dt)

\* the exception raised in the loop, if any: freq /= None
FFTLoopRaises(o) ==
    IF o.relative /\ Frev(o) = None THEN Some("TypeError") ELSE None

\* str.lower() on the scaling names the model passes
Lower(str) ==
    IF str = "PDS" THEN "pds"
    ELSE IF str = "Amplitude" THEN "amplitude"
    ELSE str

\* variant of FFTSquares that also knows the name "power"
FFTSquares_Power(o) == Lower(o.scaling) \in {"pds", "power"}

\* elif self.scaling.lower() == "pds": mag = mag**2
FFTSquares(o) == Lower(o.scaling) # "amplitude" /\ Lower(o.scaling) = "pds"

\* if self.scaling.lower() == "amplitude": mag *= 2 / len(timeseries) * self.factor_for(p)
FFTMultiplier(o, len) ==
    IF Lower(o.scaling) = "amplitude"
    THEN RMul(RDiv(RInt(2), RInt(len)), o.factor_p)
    ELSE RInt(1)

\* the data given to the artist of the property p, whose values are w0 (None
\* for "count"); the magnitudes np.abs(np.fft.rfft(timeseries))[1:] are not
\* computed: mag names the series, the number of magnitudes (rfft of a series
\* of length m has m // 2 + 1 terms, [1:] drops the first) and what the
\* scaling does to them
FFTArtist(o, ts, w0, nb, pf) ==
    LET b == binned_timeseries(ts, nb, w0, None, pf)
        f == RfftFreqFrom(1, nb, b.dt)
    IN  [freq |-> IF o.relative THEN ScaledR(RDiv(RInt(1), Val(Frev(o))), f)
                  ELSE ScaledR(o.factor_f, f),
         mag |-> [timeseries |-> b.values,
                  len |-> (Len(b.values) \div 2 + 1) - 1,
                  times |-> FFTMultiplier(o, Len(b.values)),
                  squared |-> FFTSquares(o)]]

\* the loop over the properties on_y
FFTLoop(o, ts, w0, nb, pf) ==
    [k \in DOMAIN o.on_y |->
        Some(FFTArtist(o, ts, IF o.on_y[k] = "count" THEN None ELSE w0, nb, pf))]

RECURSIVE NoArtists(_)
NoArtists(k) == IF k <= 0 THEN <<>> ELSE Append(NoArtists(k - 1), None)

\* ------------------------------------------------------------ TimeBinPlot
TimeBinDefaultBinCount == 100

CountBased == {"count", "rate", "cumulative"}

\* __init__: the fields of the object made from the keyword arguments a;
\* on_y is the list of the properties named by the argument kind
TimeBinPlotInit(a) ==
    [bin_time |-> a.bin_time,
     bin_count |-> IF a.bin_time = None /\ a.bin_count = None
                   THEN Some(TimeBinDefaultBinCount)
                   ELSE a.bin_count,
     exact_bin_time |-> a.exact_bin_time,
     relative |-> a.relative,
     on_y |-> a.kind,
     factor_t |-> a.factor_t,
     factor_p |-> a.factor_p]

\* if self.bin_count: true unless bin_count is None or 0
TimeBinHasCount(o) == o.bin_count # None /\ Val(o.bin_count) # 0

\* (np.max(times) - np.min(times)) / self.bin_time
TimeBinQuotient(o, ts) ==
    RDiv(RInt(NpMax(ts) - NpMin(ts)), RInt(Val(o.bin_time)))

\* n: self.bin_count, int(quotient) or int(round(quotient))
TimeBinN(o, ts) ==
    IF TimeBinHasCount(o) THEN Val(o.bin_count)
    ELSE IF o.exact_bin_time THEN RTrunc(TimeBinQuotient(o, ts))
    ELSE PyRound(TimeBinQuotient(o, ts))

\* t_range: np.min(times) + np.array([0, n * self.bin_time]), or None
TimeBinRange(o, ts) ==
    IF ~TimeBinHasCount(o) /\ o.exact_bin_time
    THEN <<Some(NpMin(ts)), Some(NpMin(ts) + TimeBinN(o, ts) * Val(o.bin_time))>>
    ELSE None

\* the exception raised before an artist is changed, if any: np.max or
\* np.min of an empty array, a division by None
TimeBinSetupRaises(o, ts) ==
    IF ts = <<>> THEN Some("ValueError")
    ELSE IF ~TimeBinHasCount(o) /\ o.bin_time = None THEN Some("TypeError")
    ELSE None

\* the exception raised in the loop for the property p, if any
TimeBinLoopRaises(o, p) ==
    IF o.relative /\ p \notin CountBased THEN Some("ValueError") ELSE None

\* timeseries.astype(np.float64); the averages of a property are floats already
AsTypeFloat(values, w0) ==
    IF w0 = None THEN [i \in DOMAIN values |-> RInt(values[i])] ELSE values

\* np.linspace(lo, hi, num) for num >= 1; a single point is lo + 0 * (hi - lo)
LinspaceFromOne(lo, hi, num) ==
    IF num = 1 THEN <<RAdd(lo, RMul(RInt(0), RSub(hi, lo)))>>
    ELSE Linspace(lo, hi, num)

\* variant of CumSumFrom that does not add the elements up
CumSumFrom_NoSum(acc, a) == a

\* np.cumsum(a), starting from the sum acc of the elements before a
RECURSIVE CumSumFrom(_, _)
CumSumFrom(acc, a) ==
    IF a = <<>> THEN <<>>
    ELSE IF Len(a) = 1 THEN <<RAdd(acc, a[1])>>
    ELSE LET mid == Len(a) \div 2
             left == CumSumFrom(acc, SubSeq(a, 1, mid))
         IN  left \o CumSumFrom(left[mid], SubSeq(a, mid + 1, Len(a)))

\* (edges[1:] + edges[:-1]) / 2
Midpoints(edges) ==
    [i \in 1..(Len(edges) - 1) |->
        RDiv(RAdd(edges[i + 1], edges[i]), RInt(2))]

\* the data given to the artist of the property p, whose values are w0 (None
\* for the count based kinds)
TimeBinArtist(o, ts, p, w0, pf) ==
    LET nb == TimeBinN(o, ts)
        b == binned_timeseries(ts, nb, w0, TimeBinRange(o, ts), pf)
        series0 == AsTypeFloat(b.values, w0)
        series1 == IF o.relative
                   THEN [i \in DOMAIN series0 |-> RDiv(series0[i], RInt(Len(ts)))]
                   ELSE series0
        series2 == IF p = "rate"
                   THEN [i \in DOMAIN series1 |-> RDiv(series1[i], b.dt)]
                   ELSE series1
        series3 == IF p \notin CountBased
                   THEN [i \in DOMAIN series2 |-> RMul(series2[i], o.factor_p)]
                   ELSE series2
        edges0 == LinspaceFromOne(RInt(b.t_min),
                                  RAdd(RInt(b.t_min), RMul(b.dt, RInt(nb))),
                                  nb + 1)
        edges == [i \in DOMAIN edges0 |-> RMul(edges0[i], o.factor_t)]
    IN  IF p = "cumulative"
        THEN [x |-> edges, y |-> <<RInt(0)>> \o CumSumFrom(RInt(0), series3)]
        ELSE IF p \in CountBased
        THEN [x |-> Append(edges, edges[Len(edges)]),
              y |-> <<RInt(0)>> \o series3 \o <<RInt(0)>>]
        ELSE [x |-> Midpoints(edges), y |-> series3]

\* the loop over the properties on_y[k..]: the artists after it, starting
\* from the artists arts; it stops at the first property that raises
RECURSIVE TimeBinLoop(_, _, _, _, _, _)
RECURSIVE TimeBinLoop_KeepSet(_, _, _, _, _, _)
\* variant of TimeBinLoop that leaves an artist alone once it has data
TimeBinLoop_KeepSet(o, ts, w0, pf, k, arts) ==
    IF k > Len(o.on_y) \/ TimeBinLoopRaises(o, o.on_y[k]) # None THEN arts
    ELSE TimeBinLoop_KeepSet(o, ts, w0, pf, k + 1,
             [arts EXCEPT ![k] =
                 IF arts[k] # None THEN arts[k]
                 ELSE Some(TimeBinArtist(o, ts, o.on_y[k],
                                         IF o.on_y[k] \in CountBased THEN None ELSE w0,
                                         pf))])

TimeBinLoop(o, ts, w0, pf, k, arts) ==
    IF k > Len(o.on_y) \/ TimeBinLoopRaises(o, o.on_y[k]) # None THEN arts
    ELSE TimeBinLoop(o, ts, w0, pf, k + 1,
             [arts EXCEPT ![k] =
                 Some(TimeBinArtist(o, ts, o.on_y[k],
                                    IF o.on_y[k] \in CountBased THEN None ELSE w0,
                                    pf))])

\* the first exception of update, if any
TimeBinRaises(o, ts) ==
    IF TimeBinSetupRaises(o, ts) # None THEN TimeBinSetupRaises(o, ts)
    ELSE IF \E k \in DOMAIN o.on_y : TimeBinLoopRaises(o, o.on_y[k]) # None
    THEN Some("ValueError")
    ELSE None

\* self.annotate is reached in the first pass of the loop
TimeBinAnnotates(o, ts) == TimeBinSetupRaises(o, ts) = None /\ o.on_y # <<>>

\* ------------------------------------------------------ ParticlePlotMixin
\* A quantity of the mixin is a monomial <<q, e>>: the rational q times the
\* speed of light c0 to the power e.  c0 = 299792458 is never multiplied
\* out; an arrival time is the linear form [c |-> a, i |-> b] that stands for
\* a + b / c0.
Mono(q, e) == <<q, e>>

\* ParticlePlotMixin.circumference
MixinCircumference(o) ==
    IF o._circumference # None THEN o._circumference
    ELSE IF o.twiss # None THEN Some(Val(o.twiss).circumference)
    ELSE None

\* np.mean of a non-empty array of rationals
RECURSIVE RSum(_)
RSum(s) == IF s = <<>> THEN RInt(0) ELSE RAdd(s[1], RSum(Tail(s)))
RMean(s) == RDiv(RSum(s), RInt(Len(s)))

\* the beta0 of the particles: the ValueError raised for a beta0 that is not
\* constant, like the failure to get beta0, is swallowed by the bare except,
\* and beta() then returns None
MixinBeta0(ps) ==
    IF ps.beta0 = None THEN None
    ELSE LET b == Val(ps.beta0)
         IN  IF Len(b) > 1
             THEN IF \A j \in DOMAIN b : b[j] = RMean(b)
                  THEN Some(Mono(RMean(b), 0)) ELSE None
             ELSE Some(Mono(b[1], 0))

\* ParticlePlotMixin.beta(particles): None or Some(monomial)
MixinBeta(o, ps) ==
    IF o._beta # None THEN Some(Mono(Val(o._beta), 0))
    ELSE IF o._frev # None /\ MixinCircumference(o) # None
    THEN Some(Mono(RMul(Val(o._frev), Val(MixinCircumference(o))), -1))
    ELSE IF ps # None THEN MixinBeta0(Val(ps))
    ELSE None

\* the messages of the ValueErrors of beta() and of the "t" branch
NotConstantMessage == "Particle beta0 is not constant. Please specify beta in constructor!"
BetaUnknownMessage == "Particle arrival time requested, but neither beta nor beta0 is known. Either pass beta or pass both frev and circumference."
FrevUnknownMessage == "Particle arrival time requested while at_turn > 0, but neither frev is set, nor is circumference and beta known."

\* the exception raised inside the try block of beta(), before the except
\* clause sees it
MixinBeta0Raises(ps) ==
    IF ps.beta0 = None THEN Some("KeyError")
    ELSE IF Len(Val(ps.beta0)) > 1
            /\ ~(\A j \in DOMAIN Val(ps.beta0) : Val(ps.beta0)[j] = RMean(Val(ps.beta0)))
    THEN Some(NotConstantMessage)
    ELSE None

\* the exception that leaves beta(particles): the bare except clause catches
\* everything raised in the try block and the method falls off its end
MixinBetaRaises(o, ps) == None

\* ParticlePlotMixin.frev(particles): None or Some(monomial)
MixinFrev(o, ps) ==
    IF o._frev # None THEN Some(Mono(Val(o._frev), 0))
    ELSE LET b == MixinBeta(o, ps)
         IN  IF b # None /\ MixinCircumference(o) # None
             THEN Some(Mono(RDiv(Val(b)[1], Val(MixinCircumference(o))), Val(b)[2] + 1))
             ELSE None

\* array[mask]: the mask None adds an axis and selects everything
Indexed(s, mk) == IF mk = None THEN s ELSE Masked(s, Val(mk))

\* the linear form of the monomial m, whose power of c0 is 0 or -1
Linear(m) ==
    IF m[2] = 0 THEN [c |-> m[1], i |-> RInt(0)] ELSE [c |-> RInt(0), i |-> m[1]]
LinearAdd(x, y) == [c |-> RAdd(x.c, y.c), i |-> RAdd(x.i, y.i)]

\* variant of ZetaTime without the negation
ZetaTime_Positive(z, b) == Mono(RDiv(RInt(z), b[1]), (0 - b[2]) - 1)

\* -zeta / beta / c0
ZetaTime(z, b) == Mono(RDiv(RNeg(RInt(z)), b[1]), (0 - b[2]) - 1)

\* turn / frev
TurnTime(t, f) == Mono(RDiv(RInt(t), f[1]), 0 - f[2])

\* np.any(turn != 0)
AnyTurn(turn) == \E j \in DOMAIN turn : turn[j] # 0

\* variant of GetMaskedRaises that looks at the turns of all particles, not
\* only of the selected ones
GetMaskedRaises_Unmasked(o, ps, mk) ==
    IF MixinBeta(o, Some(ps)) = None THEN Some("ValueError")
    ELSE IF AnyTurn(ps.at_turn) /\ MixinFrev(o, Some(ps)) = None
    THEN Some("ValueError")
    ELSE None

\* _get_masked(particles, "t", mask): the exception raised, if any
GetMaskedRaises(o, ps, mk) ==
    IF MixinBeta(o, Some(ps)) = None THEN Some("ValueError")
    ELSE IF AnyTurn(Indexed(ps.at_turn, mk)) /\ MixinFrev(o, Some(ps)) = None
    THEN Some("ValueError")
    ELSE None

\* _get_masked(particles, "t", mask): the message of the exception raised
GetMaskedMessage(o, ps, mk) ==
    IF MixinBetaRaises(o, Some(ps)) # None THEN MixinBetaRaises(o, Some(ps))
    ELSE IF MixinBeta(o, Some(ps)) = None THEN Some(BetaUnknownMessage)
    ELSE IF AnyTurn(Indexed(ps.at_turn, mk)) /\ MixinFrev(o, Some(ps)) = None
    THEN Some(FrevUnknownMessage)
    ELSE None

\* _get_masked(particles, "t", mask): the flat array of arrival times
GetMasked(o, ps, mk) ==
    LET b == Val(MixinBeta(o, Some(ps)))
        turn == Indexed(ps.at_turn, mk)
        zeta == Indexed(ps.zeta, mk)
    IN  [j \in DOMAIN zeta |->
            IF AnyTurn(turn)
            THEN LinearAdd(Linear(ZetaTime(zeta[j], b)),
                           Linear(TurnTime(turn[j], Val(MixinFrev(o, Some(ps))))))
            ELSE Linear(ZetaTime(zeta[j], b))]

\* _init_particle_mixin: the fields set from the keyword arguments a
ParticlePlotMixinInit(a) ==
    [twiss |-> a.twiss, _beta |-> a.beta, _frev |-> a.frev,
     _circumference |-> a.circumference]

\* ------------------------------------------------------------------ state
VARIABLES
    pc,        \* "start" before the call, "done" after it returned or raised
    platform,  \* the machine the interpreter runs on (see AsTypeInt)
    times,     \* array of particle arrival times
    n,         \* binned_timeseries: number of bins
    what,      \* binned_timeseries: None or Some(array of associated data)
    range,     \* binned_timeseries: None or <<min, max>>
    ret,       \* None or Some(value returned by binned_timeseries)
    args,      \* None or the keyword arguments of the plot's constructor
    self,      \* None or Some(fields of the plot object)
    artist,    \* None or Some(data set on the plot's artist)
    annotation,\* None or Some(bin width annotated on the plot)
    raised,    \* None or Some(name of the exception the call raised)
    particles, \* None or Some(particle data: zeta, at_turn, beta0)
    mask,      \* None (no mask) or Some(boolean index mask)
    calls      \* the number of update calls made on the plot after the first

vars == <<pc, platform, times, n, what, range, ret, args, self, artist,
          annotation, raised, particles, mask, calls>>
mixinVars == <<particles, mask>>
callVars == <<calls>>
binVars == <<n, what, range, ret>>
plotVars == <<args, self, artist, annotation>>

\* ----------------------------------------------------------------- inputs
\* spec.md section 8: times = [0.1, 0.15, 0.9, 1.0, 1.95] in ticks of 0.05
ExampleTimes == <<2, 3, 18, 20, 39>>

TimesSet == UNION {[1..k -> 0..MaxT] : k \in 0..MaxLen} \cup {ExampleTimes}

OptT == {None} \cup {Some(t) : t \in 0..MaxRange}
RangeSet == {None} \cup (OptT \X OptT)

\* the machine only shows in the conversion of nan and inf, when dt = 0
PlatformsFor(ts, rg) ==
    IF ts # <<>> /\ TMax(ts, rg) = TMin(ts, rg) THEN Platforms ELSE {"x86_64"}

\* ---------------------------------------------- calls of binned_timeseries
InitBin ==
    /\ pc = "start"
    /\ times \in TimesSet
    /\ n \in 1..MaxN
    /\ what \in {None} \cup {Some(w) : w \in [1..Len(times) -> 0..MaxWhat]}
    /\ range \in RangeSet
    /\ times # <<>> => TMin(times, range) <= TMax(times, range)
    /\ platform \in PlatformsFor(times, range)
    /\ ret = None
    /\ raised = None
    /\ args = None /\ self = None /\ artist = None /\ annotation = None
    /\ particles = None /\ mask = None
    /\ calls = 0

\* np.min / np.max of an empty array raise ValueError
NeedsData(rg) == rg = None \/ rg[1] = None \/ rg[2] = None

CallBinnedTimeseries ==
    /\ pc = "start"
    /\ pc' = "done"
    /\ IF times = <<>> /\ NeedsData(range)
       THEN ret' = None /\ raised' = Some("ValueError")
       ELSE /\ ret' = Some(binned_timeseries(times, n, what, range, platform))
            /\ raised' = None
    /\ UNCHANGED <<callVars, mixinVars, platform, times, n, what, range, plotVars>>

NextBin == CallBinnedTimeseries

SpecBin == InitBin /\ [][NextBin]_vars

\* ------------------------------------------------- TimeIntervalPlot calls
\* spec.md section 8: sorted timestamps [0, 1, 3, 6], bin_time = 1, bin_count = 5
IntervalExampleTimes == <<0, 1, 3, 6>>
IntervalExampleTmax == RInt(5)

HalfSteps(k) == {Rat(h, 2) : h \in 1..(2 * k)}
FactorSet == {RInt(1), RInt(1000)}   \* t displayed in s or in ms

InitInterval ==
    /\ pc = "start"
    /\ platform = "x86_64"
    /\ times \in UNION {[1..k -> 0..MaxSpan] : k \in 0..MaxParticles} \cup {IntervalExampleTimes}
    /\ args \in [tmax : {None} \cup {Some(q) : q \in HalfSteps(MaxTmax) \cup {IntervalExampleTmax}},
                 bin_time : {None} \cup {Some(q) : q \in HalfSteps(MaxBinTime)},
                 bin_count : {None} \cup {Some(k) : k \in 1..MaxBinCount},
                 exact_bin_time : BOOLEAN,
                 factor_t : FactorSet]
    /\ n = 0 /\ what = None /\ range = None /\ ret = None
    /\ self = None /\ artist = None /\ annotation = None
    /\ particles = None /\ mask = None
    /\ calls = 0
    /\ raised = None

\* TimeIntervalPlot(tmax=..., bin_time=..., bin_count=..., exact_bin_time=...)
IntervalConstruct ==
    /\ pc = "start"
    /\ IF TimeIntervalPlotRaises(args) # None
       THEN pc' = "done" /\ raised' = TimeIntervalPlotRaises(args) /\ self' = None
       ELSE /\ pc' = "constructed"
            /\ raised' = None
            /\ self' = Some(TimeIntervalPlotInit(args))
    /\ UNCHANGED <<callVars, mixinVars, platform, times, binVars, args, artist, annotation>>

\* TimeIntervalPlot.update(particles); np.histogram raises ValueError when
\* the number of bins is not positive
IntervalUpdate ==
    /\ pc = "constructed"
    /\ pc' = "done"
    /\ IF IntervalBinCount(Val(self)) < 1
       THEN raised' = Some("ValueError") /\ UNCHANGED <<artist, annotation>>
       ELSE /\ artist' = Some(IntervalSteps(Val(self), times))
            /\ annotation' = Some(IntervalBinTime(Val(self)))
            /\ raised' = None
    /\ UNCHANGED <<callVars, mixinVars, platform, times, binVars, args, self>>

NextInterval == IntervalConstruct \/ IntervalUpdate

SpecInterval == InitInterval /\ [][NextInterval]_vars

\* ------------------------------------------------ TimeVariationPlot calls
RECURSIVE IsSorted(_)
IsSorted(a) == Len(a) <= 1 \/ (a[1] <= a[2] /\ IsSorted(Tail(a)))

\* the counts of binned_timeseries do not depend on the order of the
\* timestamps: they are taken in non-decreasing order
SortedTimesSet == {a \in UNION {[1..k -> 0..MaxSpan] : k \in 0..MaxParticles} : IsSorted(a)}

MetricNames == Metrics \cup {"rms"}   \* "rms" is not a metric of the plot

\* one trace, or two of which the second may be unknown
MetricLists == {<<m>> : m \in MetricNames} \cup {<<"cv", "duty">>, <<"duty", "rms">>}

\* spec.md: constant-rate data, equally spaced timestamps
VariationExampleTimes == <<0, 0, 1, 1, 2, 2, 3>>

InitVariation ==
    /\ pc = "start"
    /\ times \in SortedTimesSet \cup {VariationExampleTimes}
    /\ platform \in PlatformsFor(times, None)
    /\ args \in [metric : MetricLists,
                 counting_dt : {None} \cup {Some(RInt(k)) : k \in 1..MaxCountingDt},
                 counting_bins : {None} \cup {Some(k) : k \in 1..MaxCountingBins},
                 evaluate_dt : {None} \cup {Some(RInt(k)) : k \in 1..MaxEvaluateDt},
                 evaluate_bins : {None} \cup {Some(k) : k \in 1..MaxEvaluateBins},
                 poisson : BOOLEAN,
                 factor_t : {RInt(1)}]
    \* the default of 100 * 100 counting bins is left out
    /\ args.counting_dt # None \/ args.counting_bins # None
    \* a width and a number of bins are given together for one bin only
    /\ (args.counting_dt # None /\ args.counting_bins # None) => args.counting_bins = Some(1)
    /\ (args.evaluate_dt # None /\ args.evaluate_bins # None) => args.evaluate_bins = Some(1)
    /\ n = 0 /\ what = None /\ range = None /\ ret = None
    /\ self = None /\ artist = None /\ annotation = None
    /\ particles = None /\ mask = None
    /\ calls = 0
    /\ raised = None

\* TimeVariationPlot(metric=..., counting_dt=..., counting_bins=..., ...)
VariationConstruct ==
    /\ pc = "start"
    /\ pc' = "constructed"
    /\ self' = Some(TimeVariationPlotInit(args))
    /\ artist' = Some(EmptyArtists(Len(args.metric)))
    /\ UNCHANGED <<callVars, mixinVars, platform, times, binVars, args, annotation, raised>>

\* TimeVariationPlot.update(particles)
VariationUpdate ==
    /\ pc = "constructed"
    /\ pc' = "done"
    /\ raised' = VariationRaises(Val(self), times)
    /\ IF VariationSetupRaises(Val(self), times) # None
       THEN UNCHANGED <<artist, annotation>>
       ELSE /\ artist' = Some(VariationLoop(Val(self), times, platform, 1, Val(artist)))
            /\ annotation' =
                  IF VariationAnnotates(Val(self), times)
                  THEN Some(VariationBinning(Val(self), times, platform).annotation)
                  ELSE annotation
    /\ UNCHANGED <<callVars, mixinVars, platform, times, binVars, args, self>>

NextVariation == VariationConstruct \/ VariationUpdate

SpecVariation == InitVariation /\ [][NextVariation]_vars

\* ------------------------------------------------------ TimeFFTPlot calls
Kinds == {<<"count">>, <<"count", "x">>}

InitFFT ==
    /\ pc = "start"
    /\ times \in SortedTimesSet
    /\ platform \in PlatformsFor(times, None)
    /\ args \in [kind : Kinds,
                 fmax : {None} \cup {Some(q) : q \in HalfSteps(MaxFmax)},
                 relative : BOOLEAN,
                 scaling : {None, Some("amplitude"), Some("pds"), Some("PDS"), Some("power")},
                 frev : {None} \cup {Some(RInt(k)) : k \in 1..MaxFrev},
                 factor_f : {RInt(1)},
                 factor_p : FactorSet]
    \* the display factor of the property is varied on the shorter inputs only
    /\ Len(times) = MaxParticles => args.factor_p = RInt(1)
    \* the other spellings of the scaling are tried on the plain counts only
    /\ args.scaling \in {Some("PDS"), Some("power")} => args.kind = <<"count">>
    \* the values of the particle property x, if it is plotted
    /\ what \in IF args.kind = <<"count">> THEN {None}
                ELSE {Some(w) : w \in [1..Len(times) -> 0..MaxWhat]}
    /\ n = 0 /\ range = None /\ ret = None
    /\ self = None /\ artist = None /\ annotation = None
    /\ particles = None /\ mask = None
    /\ calls = 0
    /\ raised = None

\* TimeFFTPlot(kind=..., fmax=..., relative=..., scaling=..., frev=...)
FFTConstruct ==
    /\ pc = "start"
    /\ pc' = "constructed"
    /\ self' = Some(TimeFFTPlotInit(args))
    /\ artist' = Some(NoArtists(Len(args.kind)))
    /\ UNCHANGED <<callVars, mixinVars, platform, times, binVars, args, annotation, raised>>

\* TimeFFTPlot.update(particles)
FFTUpdate ==
    /\ pc = "constructed"
    /\ pc' = "done"
    /\ IF FFTSetupRaises(Val(self), times) # None
       THEN /\ raised' = FFTSetupRaises(Val(self), times)
            /\ UNCHANGED <<self, artist, annotation>>
       ELSE LET nb == NextPowerOfTwo(FFTNRaw(Val(self), times))
            IN  /\ self' = Some([Val(self) EXCEPT !.nbins = Some(nb)])
                /\ IF FFTLoopRaises(Val(self)) # None
                   THEN /\ raised' = FFTLoopRaises(Val(self))
                        /\ UNCHANGED <<artist, annotation>>
                   ELSE /\ raised' = None
                        /\ artist' = Some(FFTLoop(Val(self), times, what, nb, platform))
                        /\ annotation' = Some(Dt(times, nb, None))
    /\ UNCHANGED <<callVars, mixinVars, platform, times, binVars, args>>

NextFFT == FFTConstruct \/ FFTUpdate

SpecFFT == InitFFT /\ [][NextFFT]_vars

\* ------------------------------------------------------ TimeBinPlot calls
BinKinds == {<<"count">>, <<"rate">>, <<"cumulative">>, <<"count", "x">>}

InitTimeBin ==
    /\ pc = "start"
    /\ times \in SortedTimesSet
    /\ platform \in PlatformsFor(times, None)
    /\ args \in [kind : BinKinds,
                 bin_time : {None} \cup {Some(k) : k \in 1..MaxBinWidth},
                 bin_count : {None} \cup {Some(k) : k \in 1..MaxBinCount},
                 exact_bin_time : BOOLEAN,
                 relative : BOOLEAN,
                 factor_t : FactorSet,
                 factor_p : {RInt(1)}]
    \* the display factor of t is varied for the plain counts only
    /\ args.kind # <<"count">> => args.factor_t = RInt(1)
    \* exact_bin_time is varied only where update reads it: without bin_count
    /\ (args.bin_count # None \/ args.bin_time = None) => args.exact_bin_time
    \* the values of the particle property x, if it is plotted
    /\ what \in IF args.kind = <<"count", "x">>
                THEN {Some(w) : w \in [1..Len(times) -> 0..MaxWhat]}
                ELSE {None}
    /\ n = 0 /\ range = None /\ ret = None
    /\ self = None /\ artist = None /\ annotation = None
    /\ particles = None /\ mask = None
    /\ calls = 0
    /\ raised = None

\* TimeBinPlot(kind=..., bin_time=..., bin_count=..., exact_bin_time=...,
\* relative=...)
TimeBinConstruct ==
    /\ pc = "start"
    /\ pc' = "constructed"
    /\ self' = Some(TimeBinPlotInit(args))
    /\ artist' = Some(NoArtists(Len(args.kind)))
    /\ UNCHANGED <<callVars, mixinVars, platform, times, binVars, args, annotation, raised>>

\* TimeBinPlot.update(particles), times being the arrival times of the
\* particles
TimeBinUpdate ==
    /\ pc = "constructed"
    /\ pc' = "done"
    /\ raised' = TimeBinRaises(Val(self), times)
    /\ IF TimeBinSetupRaises(Val(self), times) # None
       THEN UNCHANGED <<artist, annotation>>
       ELSE /\ artist' = Some(TimeBinLoop(Val(self), times, what, platform, 1,
                                          Val(artist)))
            /\ annotation' =
                   IF TimeBinAnnotates(Val(self), times)
                   THEN Some(Dt(times, TimeBinN(Val(self), times),
                                TimeBinRange(Val(self), times)))
                   ELSE annotation
    /\ UNCHANGED <<callVars, mixinVars, platform, times, binVars, args, self>>

NextTimeBin == TimeBinConstruct \/ TimeBinUpdate

SpecTimeBin == InitTimeBin /\ [][NextTimeBin]_vars

\* ------------------------------------------------ calls of _get_masked
ZetaSet == {0 - MaxZeta, 0, MaxZeta}
TurnSet == {0, MaxTurn}
\* no beta0, a scalar, a constant array, an array that is not constant
Beta0Set == {None, Some(<<RInt(1)>>), Some(<<RInt(1), RInt(1)>>),
             Some(<<RInt(1), Rat(1, 2)>>)}

InitArrival ==
    /\ pc = "start"
    /\ platform = "x86_64"
    /\ particles \in {Some([zeta |-> z, at_turn |-> t, beta0 |-> b]) :
                          z \in UNION {[1..k -> ZetaSet] : k \in 0..MaxBunch},
                          t \in UNION {[1..k -> TurnSet] : k \in 0..MaxBunch},
                          b \in Beta0Set}
    /\ Len(Val(particles).zeta) = Len(Val(particles).at_turn)
    /\ mask \in {None} \cup {Some(m) : m \in [1..Len(Val(particles).zeta) -> BOOLEAN]}
    /\ calls = 0
    /\ args \in [beta : {None, Some(RInt(1)), Some(Rat(1, 2))},
                 frev : {None, Some(RInt(1))},
                 circumference : {None, Some(RInt(1))},
                 twiss : {None, Some([circumference |-> RInt(2)])}]
    \* twiss is only looked at when no circumference is given
    /\ args.circumference # None => args.twiss = None
    /\ self = Some(ParticlePlotMixinInit(args))
    /\ times = <<>> /\ n = 0 /\ what = None /\ range = None /\ ret = None
    /\ artist = None /\ annotation = None
    /\ raised = None

\* self._get_masked(particles, "t", mask)
CallGetMasked ==
    /\ pc = "start"
    /\ pc' = "done"
    /\ IF GetMaskedRaises(Val(self), Val(particles), mask) # None
       THEN ret' = None /\ raised' = GetMaskedRaises(Val(self), Val(particles), mask)
       ELSE /\ ret' = Some(GetMasked(Val(self), Val(particles), mask))
            /\ raised' = None
    /\ UNCHANGED <<callVars, mixinVars, platform, times, n, what, range, plotVars>>

NextArrival == CallGetMasked

SpecArrival == InitArrival /\ [][NextArrival]_vars

\* --------------------------------------------------------- repeated updates
\* the plot class the keyword arguments a were drawn for
IsTimeBinPlot(a) == "bin_count" \in DOMAIN a /\ "relative" \in DOMAIN a
IsTimeFFTPlot(a) == "fmax" \in DOMAIN a
IsTimeIntervalPlot(a) == "tmax" \in DOMAIN a
IsTimeVariationPlot(a) == "metric" \in DOMAIN a

\* the arrival times of the particles of one call, in non-decreasing order
CallTimesSet ==
    {<<>>} \cup {a \in [1..MaxCallParticles -> 0..MaxCallSpan] : IsSorted(a)}

\* the property x of the particles of one call
PropertyOf(ts) == [j \in DOMAIN ts |-> j % 2]

UpdatesArgs ==
    [kind : BinKinds,
     bin_time : {None, Some(1)},
     bin_count : {None, Some(2)},
     exact_bin_time : BOOLEAN,
     relative : BOOLEAN,
     factor_t : {RInt(1)},
     factor_p : {RInt(1)}]
    \cup
    [metric : MetricLists,
     counting_dt : {None, Some(RInt(1))},
     counting_bins : {None, Some(2)},
     evaluate_dt : {None},
     evaluate_bins : {Some(1), Some(2)},
     poisson : {TRUE},
     factor_t : {RInt(1)}]
    \cup
    [kind : Kinds,
     fmax : {None, Some(RInt(1))},
     relative : BOOLEAN,
     scaling : {None},
     frev : {None, Some(RInt(1))},
     factor_f : {RInt(1)},
     factor_p : {RInt(1)}]
    \cup
    [tmax : {Some(RInt(2))},
     bin_time : {None, Some(RInt(1))},
     bin_count : {None, Some(2)},
     exact_bin_time : BOOLEAN,
     factor_t : {RInt(1)}]

InitUpdates ==
    /\ pc = "start"
    /\ platform \in Platforms
    /\ times \in CallTimesSet
    /\ args \in UpdatesArgs
    \* one way to give the bin width of a TimeBinPlot (the default of 100 bins
    \* is left out), relative for two kinds
    /\ IsTimeBinPlot(args) =>
          /\ (args.bin_time = None) # (args.bin_count = None)
          /\ args.exact_bin_time \/ (args.bin_time # None /\ args.bin_count = None)
          /\ args.relative => args.kind \in {<<"count">>, <<"count", "x">>}
    \* the default of 100 * 100 counting bins is left out
    /\ IsTimeVariationPlot(args) =>
          (args.counting_dt = None) # (args.counting_bins = None)
    /\ IsTimeFFTPlot(args) => (args.fmax = None => args.relative)
    /\ IsTimeIntervalPlot(args) =>
          /\ args.bin_time = None \/ args.bin_count = None
          /\ args.exact_bin_time \/ args.bin_time # None
    /\ what = IF "kind" \in DOMAIN args /\ args.kind = <<"count", "x">>
              THEN Some(PropertyOf(times)) ELSE None
    /\ n = 0 /\ range = None /\ ret = None
    /\ self = None /\ artist = None /\ annotation = None
    /\ particles = None /\ mask = None
    /\ calls = 0
    /\ raised = None

\* the caller makes a further call of update, for other particles
UpdateAgain ==
    /\ pc = "done" /\ self # None
    /\ calls < MaxCalls
    /\ pc' = "constructed"
    /\ calls' = calls + 1
    /\ \E ts \in CallTimesSet :
          /\ times' = ts
          /\ what' = IF what = None THEN None ELSE Some(PropertyOf(ts))
    /\ raised' = None
    /\ UNCHANGED <<mixinVars, platform, n, range, ret, args, self, artist, annotation>>

NextUpdates ==
    \/ IsTimeBinPlot(args) /\ (TimeBinConstruct \/ TimeBinUpdate)
    \/ IsTimeVariationPlot(args) /\ (VariationConstruct \/ VariationUpdate)
    \/ IsTimeFFTPlot(args) /\ (FFTConstruct \/ FFTUpdate)
    \/ IsTimeIntervalPlot(args) /\ (IntervalConstruct \/ IntervalUpdate)
    \/ UpdateAgain

SpecUpdates == InitUpdates /\ [][NextUpdates]_vars

\* ------------------------------ a TimeBinPlot and a TimeIntervalPlot together
\* the keyword arguments of the two constructors, for the same bin_time,
\* bin_count and exact_bin_time
BinArgsOf(a) ==
    [kind |-> <<"count">>, bin_time |-> a.bin_time, bin_count |-> a.bin_count,
     exact_bin_time |-> a.exact_bin_time, relative |-> FALSE,
     factor_t |-> RInt(1), factor_p |-> RInt(1)]

IntervalArgsOf(a) ==
    [tmax |-> a.tmax,
     bin_time |-> IF a.bin_time = None THEN None ELSE Some(RInt(Val(a.bin_time))),
     bin_count |-> a.bin_count, exact_bin_time |-> a.exact_bin_time,
     factor_t |-> RInt(1)]

\* the data the updates of the two plots made for the arguments a set on
\* their artists
BothArtists(a, ts, pf) ==
    [bin |-> TimeBinLoop(TimeBinPlotInit(BinArgsOf(a)), ts, None, pf, 1, NoArtists(1)),
     interval |-> IntervalSteps(TimeIntervalPlotInit(IntervalArgsOf(a)), ts)]

InitBoth ==
    /\ pc = "start"
    /\ times \in {ts \in SortedTimesSet : ts # <<>>}
    /\ platform \in PlatformsFor(times, None)
    /\ args \in [tmax : {Some(RInt(k)) : k \in 1..MaxTmax},
                 bin_time : {None} \cup {Some(k) : k \in 1..MaxBinWidth},
                 bin_count : {None} \cup {Some(k) : k \in 1..MaxBinCount},
                 exact_bin_time : BOOLEAN]
    \* the default of 100 bins is left out
    /\ ~(args.bin_time = None /\ args.bin_count = None)
    /\ n = 0 /\ what = None /\ range = None /\ ret = None
    /\ self = None /\ artist = None /\ annotation = None
    /\ particles = None /\ mask = None
    /\ calls = 0
    /\ raised = None

\* TimeBinPlot(bin_time=..., bin_count=..., exact_bin_time=...) and
\* TimeIntervalPlot(tmax=..., bin_time=..., bin_count=..., exact_bin_time=...)
BothConstruct ==
    /\ pc = "start"
    /\ IF TimeIntervalPlotRaises(IntervalArgsOf(args)) # None
       THEN /\ pc' = "done"
            /\ raised' = TimeIntervalPlotRaises(IntervalArgsOf(args))
            /\ self' = None
       ELSE /\ pc' = "constructed"
            /\ raised' = None
            /\ self' = Some([bin |-> TimeBinPlotInit(BinArgsOf(args)),
                             interval |-> TimeIntervalPlotInit(IntervalArgsOf(args))])
    /\ UNCHANGED <<callVars, mixinVars, platform, times, binVars, args, artist, annotation>>

\* update(particles) of the TimeBinPlot, then of the TimeIntervalPlot; the
\* timestamps are not empty and no averaged property is plotted, so the first
\* update returns
BothUpdate ==
    /\ pc = "constructed"
    /\ pc' = "done"
    /\ raised' = IF IntervalBinCount(Val(self).interval) < 1
                 THEN Some("ValueError") ELSE None
    /\ artist' = Some([bin |-> TimeBinLoop(Val(self).bin, times, None, platform,
                                           1, NoArtists(1)),
                       interval |-> IF IntervalBinCount(Val(self).interval) < 1
                                    THEN None
                                    ELSE IntervalSteps(Val(self).interval, times)])
    /\ annotation' = Some(Dt(times, TimeBinN(Val(self).bin, times),
                             TimeBinRange(Val(self).bin, times)))
    /\ UNCHANGED <<callVars, mixinVars, platform, times, binVars, args, self>>

NextBoth == BothConstruct \/ BothUpdate

SpecBoth == InitBoth /\ [][NextBoth]_vars

\* ============================================ properties: binned_timeseries
Returned == pc = "done" /\ ret # None
Result == Val(ret)
Spread == times # <<>> /\ NpMax(times) > NpMin(times)

RECURSIVE SumOver(_, _)
SumOver(S, f) ==
    IF S = {} THEN 0
    ELSE LET j == CHOOSE x \in S : TRUE IN f[j] + SumOver(S \ {j}, f)

\* C1: with range = None and what = None, for max(times) > min(times) the
\* returned counts sum up to len(times): no timestamp is lost.
C1_NoTimestampLost ==
    (Returned /\ range = None /\ what = None /\ Spread)
        => NpSum(Result.values) = Len(times)

\* C2: without an explicit range the last bin is closed on both sides: the
\* timestamps equal to max(times) are counted in bin n-1.
C2_MaxInLastBin ==
    (Returned /\ range = None /\ what = None /\ Spread)
        => LET t_min == NpMin(times)
               dt == Rat(NpMax(times) - NpMin(times), n)
           IN  Result.values[n] = Cardinality({j \in DOMAIN times :
                   /\ RLe(RMul(RInt(n - 1), dt), RInt(times[j] - t_min))
                   /\ RLe(RInt(times[j] - t_min), RMul(RInt(n), dt))})

\* C3: with range = None and what = None the returned values have length n,
\* and values[i] is the non-negative number of timestamps t with
\* floor((t - t_min) / dt) = i, t_min = min(times), dt = (max - min) / n.
C3_CountsAreFloorBins ==
    (Returned /\ range = None /\ what = None)
        => /\ Len(Result.values) = n
           /\ Spread =>
                LET t_min == NpMin(times)
                    dt == Rat(NpMax(times) - NpMin(times), n)
                IN  \A i \in 0..(n - 1) :
                        /\ Result.values[i + 1] >= 0
                        /\ Result.values[i + 1] = Cardinality({j \in DOMAIN times :
                               RFloor(RDiv(RInt(times[j] - t_min), dt)) = i})

C3_Witness ==
    /\ Returned /\ range = None /\ what = None /\ Spread
    /\ n >= 2
    /\ \E i \in 1..n : Result.values[i] >= 2
    /\ \E i \in 1..n : Result.values[i] = 0

\* the timestamps inside an explicit range [lo, hi], and their data
InRange(j) == Val(range[1]) <= times[j] /\ times[j] <= Val(range[2])
InRangeMask == [j \in DOMAIN times |-> InRange(j)]

\* C4: with an explicit range (t_min, t_max) a timestamp below t_min or above
\* t_max contributes to no bin: the result is the one of the call without
\* these timestamps (and without their associated data).
C4_OutsideRangeDropped ==
    (Returned /\ range # None /\ range[1] # None /\ range[2] # None)
        => Result = binned_timeseries(
                        Masked(times, InRangeMask), n,
                        IF what = None THEN None
                        ELSE Some(Masked(Val(what), InRangeMask)),
                        range, platform)

\* the indices whose timestamp the code counts in bin i
CountedIn(i) ==
    LET bins == Bins(times, n, range, platform)
    IN  {j \in DOMAIN times : BinMask(bins, n)[j] /\ bins[j] = i}

\* C5: with an associated array, values has length n, values[i] is the mean
\* of what[j] over the indices j counted in bin i, and a bin with zero count
\* reports exactly 0.  (A quantifier over a one-element set names a value.)
C5_MeanPerBinZeroFilled ==
    (Returned /\ what # None)
        => /\ Len(Result.values) = n
           /\ \A bins \in {Bins(times, n, range, platform)} :
              \A msk \in {BinMask(bins, n)} :
              \A plain \in {binned_timeseries(times, n, None, range, platform).values} :
              \A i \in 0..(n - 1) :
              \A counted \in {{j \in DOMAIN times : msk[j] /\ bins[j] = i}} :
                  /\ Cardinality(counted) = plain[i + 1]
                  /\ Result.values[i + 1] =
                         IF counted = {} THEN RInt(0)
                         ELSE Rat(SumOver(counted, Val(what)), Cardinality(counted))

C5_Witness ==
    /\ Returned /\ what # None
    /\ \E i \in 0..(n - 1) : CountedIn(i) = {}
    /\ \E i \in 0..(n - 1) : \E j, k \in CountedIn(i) : Val(what)[j] # Val(what)[k]

\* C6: a zero-width time range (t_max = t_min) makes binned_timeseries fail
\* with a degenerate-range error instead of returning a result.
C6_DegenerateRangeRaises ==
    (pc = "done" /\ ~(times = <<>> /\ NeedsData(range))
                 /\ TMax(times, range) = TMin(times, range))
        => (ret = None /\ raised = Some("DegenerateRangeError"))

\* ============================================= properties: TimeIntervalPlot
Updated == pc = "done" /\ artist # None
Obj == Val(self)
\* the counts given to the artist, without the leading and trailing 0
PlottedCounts == SubSeq(Val(artist).y, 2, Len(Val(artist).y) - 1)
\* the consecutive differences of the sorted timestamps, in seconds
Delays == NpDiff(Sorted(times))
UpperEdge == RMul(RInt(IntervalBinCount(Obj)), IntervalBinTime(Obj))

\* C8: the N-1 differences d of the sorted timestamps, in seconds,
\* are histogrammed into exactly bin_count bins covering
\* [0, bin_count*bin_time): d is counted in bin floor(d / bin_time) if and
\* only if 0 <= d < bin_count*bin_time, and in no bin otherwise.
C8_HalfOpenHistogram ==
    Updated =>
        /\ Len(Delays) = Max2(Len(times) - 1, 0)
        /\ Len(PlottedCounts) = IntervalBinCount(Obj)
        /\ \A i \in 0..(IntervalBinCount(Obj) - 1) :
              PlottedCounts[i + 1] = Cardinality({k \in DOMAIN Delays :
                  /\ 0 <= Delays[k]
                  /\ RLt(RInt(Delays[k]), UpperEdge)
                  /\ RFloor(RDiv(RInt(Delays[k]), IntervalBinTime(Obj))) = i})

IntervalExample ==
    /\ Updated
    /\ Len(times) = Len(IntervalExampleTimes)
    /\ Range(times) = Range(IntervalExampleTimes)
    /\ IntervalBinTime(Obj) = RInt(1)
    /\ IntervalBinCount(Obj) = 5
    /\ Obj.factor_t = RInt(1)

\* C9 (as stated): the sorted timestamps [0, 1, 3, 6] give the delays
\* [1, 2, 3], and with bin_time = 1, bin_count = 5, range (0, 5) the counts
\* [1, 1, 1, 0, 0].
C9_ExampleCounts ==
    IntervalExample =>
        /\ IntervalDelay(Obj, times) = <<RInt(1), RInt(2), RInt(3)>>
        /\ PlottedCounts = <<1, 1, 1, 0, 0>>

\* C9 (amended): the sorted timestamps [0, 1, 3, 6] give the delays
\* [1, 2, 3], and with bin_time = 1, bin_count = 5, range (0, 5) the counts
\* [0, 1, 1, 1, 0].
C9_ExampleCountsShifted ==
    IntervalExample =>
        /\ IntervalDelay(Obj, times) = <<RInt(1), RInt(2), RInt(3)>>
        /\ UpperEdge = RInt(5)
        /\ PlottedCounts = <<0, 1, 1, 1, 0>>

C9_Witness == IntervalExample /\ Len(PlottedCounts) = 5

\* ============================================ properties: TimeVariationPlot
\* C7: with evaluate_bins given and counting_bins >= evaluate_bins >= 1, the
\* counting_bins fine-bin counts (of timestamps that are not all equal) are split into exactly evaluate_bins
\* contiguous evaluation windows of floor(counting_bins / evaluate_bins) fine
\* bins each; the fine bins left over at the tail are dropped.
C7_ExactlyEvaluateBinsWindows ==
    (/\ pc = "done" /\ raised = None /\ self # None /\ artist # None /\ Spread
     /\ "evaluate_bins" \in DOMAIN Obj
     /\ Obj.evaluate_bins # None /\ HasCountingBins(Obj)
     /\ Val(Obj.counting_bins) >= Val(Obj.evaluate_bins))
        => LET c == Val(Obj.counting_bins)
               e == Val(Obj.evaluate_bins)
               g == c \div e
               counts == binned_timeseries(times, c, None, None, platform).values
           IN  \A k \in DOMAIN Obj.on_y :
                   LET y == Val(Val(artist)[k].step).y
                   IN  /\ Len(y) = e + 2
                       /\ \A w \in 1..e :
                             y[w + 1] = MetricValue(Obj.on_y[k],
                                            SubSeq(counts, (w - 1) * g + 1, w * g))

VariationUpdated ==
    /\ pc = "done" /\ raised = None /\ self # None /\ artist # None
    /\ "evaluate_bins" \in DOMAIN Obj
\* the evaluation windows, and the values plotted for trace k
Windows == VariationBinning(Obj, times, platform).N
Plotted(k) == Val(Val(artist)[k].step).y
PlottedPoisson(k) == Val(Val(artist)[k].pstep).y
AllEqual(row, m) == \A j \in DOMAIN row : row[j] = m

\* C17: for metric "duty" every evaluation window with positive mean count
\* has 0 <= value <= 1, and for metric "cv" every such window has value >= 0.
C17_MetricRange ==
    VariationUpdated =>
        \A win \in {Windows} : \A k \in DOMAIN Obj.on_y : \A w \in DOMAIN win :
            NpSum(win[w]) > 0 =>
                \A v \in {Plotted(k)[w + 1]} :
                    /\ IsFinite(v[2])
                    /\ RLe(RInt(0), v[2])
                    /\ Obj.on_y[k] = "duty" => (v[1] = "rat" /\ RLe(v[2], RInt(1)))
                    /\ Obj.on_y[k] = "cv" => v[1] = "sqrt"

C17_Witness ==
    /\ VariationUpdated
    /\ \E k \in DOMAIN Obj.on_y : \E w \in DOMAIN Windows :
          /\ Obj.on_y[k] = "duty"
          /\ NpSum(Windows[w]) > 0
          /\ RLt(RInt(0), Plotted(k)[w + 1][2])
          /\ RLt(Plotted(k)[w + 1][2], RInt(1))

\* C18: an evaluation window whose fine-bin counts are all zero is reported
\* as nan, for "cv" and for "duty", without an error and without changing
\* the number of windows reported.
C18_EmptyWindowIsNaN ==
    (pc = "done" /\ self # None /\ "evaluate_bins" \in DOMAIN Obj
     /\ VariationSetupRaises(Obj, times) = None /\ times # <<>>
     /\ VariationNebins(Obj, times) # 0
     /\ \A k \in DOMAIN Obj.on_y : Obj.on_y[k] \in Metrics)
        => /\ raised = None
           /\ \A win \in {Windows} : \A k \in DOMAIN Obj.on_y :
                 /\ Len(Plotted(k)) = Len(win) + 2
                 /\ \A w \in DOMAIN win :
                       NpSum(win[w]) = 0 => IsNaN(Plotted(k)[w + 1][2])

C18_Witness ==
    /\ VariationUpdated
    /\ Len(Windows) >= 2
    /\ \E w \in DOMAIN Windows : NpSum(Windows[w]) = 0
    /\ \E w \in DOMAIN Windows : NpSum(Windows[w]) > 0
    /\ \E k \in DOMAIN Obj.on_y : Obj.on_y[k] = "cv"

\* C19: in an evaluation window whose fine bins all hold the same positive
\* count m, "cv" is exactly 0 and "duty" exactly 1, and the Poisson
\* references are 1/sqrt(m) for cv and 1/(1 + 1/m) for duty.
C19_ConstantRate ==
    VariationUpdated =>
        \A win \in {Windows} :
        \A k \in DOMAIN Obj.on_y : \A w \in DOMAIN win : \A m \in 1..Len(times) :
            AllEqual(win[w], m) =>
                /\ Obj.on_y[k] = "cv" =>
                       /\ Plotted(k)[w + 1] = Sqrt(RInt(0))
                       /\ Obj.poisson => PlottedPoisson(k)[w + 1] = Sqrt(Rat(1, m))
                /\ Obj.on_y[k] = "duty" =>
                       /\ Plotted(k)[w + 1] = Num(RInt(1))
                       /\ Obj.poisson => PlottedPoisson(k)[w + 1] = Num(Rat(m, m + 1))

C19_Witness ==
    /\ VariationUpdated
    /\ Obj.poisson
    /\ \E w \in DOMAIN Windows : Len(Windows[w]) >= 2 /\ AllEqual(Windows[w], 2)

\* ================================================== properties: TimeFFTPlot
RECURSIVE IsPowerOfTwo(_)
IsPowerOfTwo(m) == m = 1 \/ (m > 1 /\ m % 2 = 0 /\ IsPowerOfTwo(m \div 2))

\* C10: the bin count n handed to binned_timeseries is a power of two with
\* n >= n_raw = ceil((max(times) - min(times)) * 2 * fmax), and for n_raw >= 1
\* it is the smallest such power of two (n_raw itself if that is one).
C10_NextPowerOfTwo ==
    (pc = "done" /\ self # None /\ "nbins" \in DOMAIN Obj /\ Obj.nbins # None)
        => LET nb == Val(Obj.nbins)
               n_raw == FFTNRaw(Obj, times)
           IN  /\ IsPowerOfTwo(nb)
               /\ nb >= n_raw
               /\ n_raw >= 1 =>
                     /\ \A m \in n_raw..nb : IsPowerOfTwo(m) => m = nb
                     /\ IsPowerOfTwo(n_raw) => nb = n_raw
               /\ raised = None =>
                     \A k \in DOMAIN Val(artist) :
                         Len(Val(Val(artist)[k]).mag.timeseries) = nb

C10_Witness ==
    /\ pc = "done" /\ raised = None /\ self # None /\ "nbins" \in DOMAIN Obj
    /\ Obj.nbins # None
    /\ FFTNRaw(Obj, times) >= 3
    /\ ~IsPowerOfTwo(FFTNRaw(Obj, times))
    /\ Val(Obj.nbins) > FFTNRaw(Obj, times)

\* the data set on the artist of trace k
Spectrum(k) == Val(Val(artist)[k])
FFTUpdated == pc = "done" /\ raised = None /\ self # None /\ artist # None
                 /\ "nbins" \in DOMAIN Obj /\ Obj.nbins # None

\* C11: the spectrum has no zero-frequency entry: frequencies and magnitudes
\* both have length n/2 (n the power-of-two bin count, n/2 rounded down for
\* n = 1), and the frequencies are strictly increasing and all greater than 0.
C11_NoZeroFrequency ==
    FFTUpdated =>
        \A k \in DOMAIN Val(artist) :
            LET f == Spectrum(k).freq
            IN  /\ Len(f) = Val(Obj.nbins) \div 2
                /\ Spectrum(k).mag.len = Len(f)
                /\ \A i \in DOMAIN f : RLt(RInt(0), f[i])
                /\ \A i \in 1..(Len(f) - 1) : RLt(f[i], f[i + 1])

C11_Witness ==
    /\ FFTUpdated
    /\ Val(Obj.nbins) >= 4
    /\ \E k \in DOMAIN Val(artist) : Len(Spectrum(k).freq) >= 2
    /\ Obj.relative

\* C12 (as stated): scaling "power" gives the squared, unnormalised transform
\* magnitude |FFT|^2 and scaling "amplitude" gives 2/n * |FFT|; the scaling
\* name selects exactly one of these two transformations.
C12_PowerOrAmplitude ==
    FFTUpdated =>
        \A k \in DOMAIN Val(artist) :
            LET m == Spectrum(k).mag
            IN  /\ Obj.scaling = "power" => (m.squared /\ m.times = RInt(1))
                /\ Obj.scaling = "amplitude" =>
                       (~m.squared /\ m.times = Rat(2, Val(Obj.nbins)))
                /\ m.squared \/ m.times = Rat(2, Val(Obj.nbins))

\* C12 (amended): scaling "pds" gives |FFT|^2, scaling "amplitude" gives
\* 2/n * |FFT| multiplied by the display factor of the property (both names
\* in any case of letters); the name "power" is not known and leaves |FFT|
\* as it is.
C12_PdsOrAmplitude ==
    FFTUpdated =>
        \A k \in DOMAIN Val(artist) :
            LET m == Spectrum(k).mag
            IN  /\ Obj.scaling \in {"pds", "PDS"} => (m.squared /\ m.times = RInt(1))
                /\ Obj.scaling = "amplitude" =>
                       /\ ~m.squared
                       /\ m.times = RMul(Rat(2, Val(Obj.nbins)), Obj.factor_p)
                /\ Obj.scaling = "power" => (~m.squared /\ m.times = RInt(1))

C12_Witness ==
    /\ FFTUpdated
    /\ Obj.scaling = "power"
    /\ Val(Obj.nbins) >= 2
    /\ \E k \in DOMAIN Val(artist) : Spectrum(k).mag.len >= 1

\* C13: update fails with the configuration error (ValueError "fmax must be
\* specified") exactly when fmax is None and no revolution frequency is
\* available, whatever relative is; with fmax None and a revolution frequency
\* available fmax is derived from it and no error is raised; a None fmax is
\* never passed on (which would end in a TypeError).
C13_FmaxErrorIffNotDerivable ==
    (pc = "done" /\ self # None /\ times # <<>>)
        => /\ (Obj._fmax = None /\ Frev(Obj) = None) <=> raised = Some("ValueError")
           /\ (Obj._fmax = None /\ Frev(Obj) # None) => raised = None
           /\ raised # Some("TypeError")

\* ============================================ properties: ParticlePlotMixin
\* the selected particles, and the plot's beta and frev
SelectedZeta == Indexed(Val(particles).zeta, mask)
SelectedTurn == Indexed(Val(particles).at_turn, mask)
KnownBeta == MixinBeta(Obj, particles)
KnownFrev == MixinFrev(Obj, particles)
GotTimes == pc = "done" /\ raised = None /\ ret # None /\ particles # None

\* x - y and x < y for linear forms a + b / c0 (with |b| far below c0)
LinearSub(x, y) == [c |-> RSub(x.c, y.c), i |-> RSub(x.i, y.i)]
LinearLt(x, y) == RLt(x.c, y.c) \/ (x.c = y.c /\ RLt(x.i, y.i))

\* zeta / beta / c0 and turn / frev, from the quotients
ZetaOverBetaC0(j) ==
    Linear(Mono(RDiv(RInt(SelectedZeta[j]), Val(KnownBeta)[1]), (0 - Val(KnownBeta)[2]) - 1))
TurnOverFrev(j) ==
    Linear(Mono(RDiv(RInt(SelectedTurn[j]), Val(KnownFrev)[1]), 0 - Val(KnownFrev)[2]))
NoTime == [c |-> RInt(0), i |-> RInt(0)]

ArrivalDone == pc = "done" /\ particles # None

\* C15 (as stated): if a selected particle has at_turn # 0 and no revolution
\* frequency is available, requesting the arrival time fails with an error
\* and returns no array; if every selected at_turn is zero, the arrival time
\* is computed without error.
C15_FrevNeededIffTurn ==
    ArrivalDone =>
        /\ (AnyTurn(SelectedTurn) /\ KnownFrev = None)
               => (raised = Some("ValueError") /\ ret = None)
        /\ ~AnyTurn(SelectedTurn) => (raised = None /\ ret # None)

\* C15 (amended): if a selected particle has at_turn # 0 and no revolution
\* frequency is available, requesting the arrival time fails with an error
\* and returns no array; if every selected at_turn is zero and beta is
\* known, the arrival time is computed without error, with or without frev.
C15_FrevNeededIffTurnGivenBeta ==
    ArrivalDone =>
        /\ (AnyTurn(SelectedTurn) /\ KnownFrev = None)
               => (raised = Some("ValueError") /\ ret = None)
        /\ (~AnyTurn(SelectedTurn) /\ KnownBeta # None)
               => (raised = None /\ ret # None)

C15_Witness ==
    /\ ArrivalDone
    /\ AnyTurn(Val(particles).at_turn)
    /\ ~AnyTurn(SelectedTurn)
    /\ SelectedTurn # <<>>
    /\ KnownBeta # None /\ KnownFrev = None
    /\ ret # None

\* C16: for linear lines (all at_turn zero) the arrival time of a particle
\* is zeta / beta / c0.
C16_LinearLineTime ==
    (GotTimes /\ ~AnyTurn(SelectedTurn))
        => \A j \in DOMAIN SelectedZeta : Val(ret)[j] = ZetaOverBetaC0(j)

\* --------------------------------------------------- properties: TimeBinPlot
TimeBinUpdated ==
    pc = "done" /\ raised = None /\ self # None /\ artist # None /\ times # <<>>

\* update was called on a plot of the counts made with bin_time and without
\* bin_count, for timestamps that span one bin_time at least
BinTimeGiven ==
    /\ TimeBinUpdated
    /\ Val(self).bin_time # None /\ Val(self).bin_count = None
    /\ Val(self).on_y[1] = "count" /\ ~Val(self).relative
    /\ NpMax(times) - NpMin(times) >= Val(Val(self).bin_time)

\* the counts and the bin edges of the plotted steps
BinnedCounts ==
    LET y == Val(Val(artist)[1]).y IN [i \in 1..(Len(y) - 2) |-> y[i + 1]]

BinnedEdges ==
    LET x == Val(Val(artist)[1]).x IN [i \in 1..(Len(x) - 1) |-> x[i]]

DataQuotient == RDiv(RInt(NpMax(times) - NpMin(times)), RInt(Val(Val(self).bin_time)))

\* the number of timestamps up to the time hi
NotBeyond(hi) == Cardinality({j \in DOMAIN times : times[j] <= hi})

\* C20: TimeBinPlot.update with bin_time given and bin_count None.  With
\* exact_bin_time the bin width is bin_time, there are
\* n = floor((max - min) / bin_time) bins, their edges go from min to
\* min + n * bin_time in steps of bin_time, and no timestamp beyond
\* min + n * bin_time is counted.  Without exact_bin_time no timestamp is
\* removed (the counts sum to len(times)), n = round((max - min) / bin_time),
\* the bin width is (max - min) / n and the edges go from min to max.
C20_ExactOrAdjustedBinTime ==
    BinTimeGiven =>
        \A nb \in {Len(BinnedCounts)} : \A bt \in {Val(Val(self).bin_time)} :
            IF Val(self).exact_bin_time
            THEN /\ Val(annotation) = RInt(bt)
                 /\ nb = RFloor(DataQuotient)
                 /\ BinnedEdges =
                        ScaledR(Val(self).factor_t,
                                [i \in 1..(nb + 1) |-> RInt(NpMin(times) + (i - 1) * bt)])
                 /\ RLe(RSum(BinnedCounts), RInt(NotBeyond(NpMin(times) + nb * bt)))
            ELSE /\ RSum(BinnedCounts) = RInt(Len(times))
                 /\ nb = PyRound(DataQuotient)
                 /\ Val(annotation) = RDiv(RInt(NpMax(times) - NpMin(times)), RInt(nb))
                 /\ BinnedEdges[1] = RMul(Val(self).factor_t, RInt(NpMin(times)))
                 /\ BinnedEdges[nb + 1] = RMul(Val(self).factor_t, RInt(NpMax(times)))

\* ------------------------------------ properties: TimeIntervalPlot arguments
\* the constructor was called with tmax and bin_time
IntervalBinTimeGiven == pc # "start" /\ args.tmax # None /\ args.bin_time # None

\* q is an integer multiple of the positive step
IsMultipleOf(q, step) ==
    \A m \in {RDiv(q, step)} : IsFinite(m) /\ m[2] = 1

\* C21: when bin_time is given to TimeIntervalPlot, with exact_bin_time tmax
\* becomes a multiple of bin_time and bin_time is kept, without it tmax is
\* kept and bin_time becomes a divisor of tmax; in both modes the plot is
\* made, its bin_count is >= 1 and bin_count * bin_time = tmax.
C21_BinTimeDividesTmax ==
    IntervalBinTimeGiven =>
        /\ self # None
        /\ IF args.exact_bin_time
           THEN Obj._bin_time = args.bin_time
           ELSE Obj.tmax = Val(args.tmax)
        /\ IsMultipleOf(Obj.tmax, IntervalBinTime(Obj))
        /\ IntervalBinCount(Obj) >= 1
        /\ RMul(RInt(IntervalBinCount(Obj)), IntervalBinTime(Obj)) = Obj.tmax

C23_FailedUpdateChangesNothing ==
    [][(pc = "constructed" /\ raised' # None)
           => (artist' = artist /\ annotation' = annotation)]_vars

\* ---------------------------------------------- properties: repeated updates
\* the data a first update of a newly made plot sets on the artists, for the
\* arguments of the constructor and the particles of the last call
FirstUpdateArtists ==
    IF IsTimeBinPlot(args)
    THEN TimeBinLoop(TimeBinPlotInit(args), times, what, platform, 1,
                     NoArtists(Len(args.kind)))
    ELSE IF IsTimeVariationPlot(args)
    THEN VariationLoop(TimeVariationPlotInit(args), times, platform, 1,
                       EmptyArtists(Len(args.metric)))
    ELSE IF IsTimeFFTPlot(args)
    THEN FFTLoop(TimeFFTPlotInit(args), times, what,
                 NextPowerOfTwo(FFTNRaw(TimeFFTPlotInit(args), times)), platform)
    ELSE IntervalSteps(TimeIntervalPlotInit(args), times)

Ncbins == VariationNcbins(Obj, times)
Nebins == VariationNebins(Obj, times)
PlottedEdges(k) == Val(Val(artist)[k].step).x

\* C25: in TimeVariationPlot.update, for ncbins >= 1 fine bins and a group
\* size g with 1 <= g <= ncbins there are w = floor(ncbins / g) windows, the
\* w + 1 edges t_min + k * g * dt (k = 0..w) are selected, and with the
\* closing edge appended the edges and the steps [0, F..., 0] both have
\* length w + 2.
C25_EdgesAlignedWithWindows ==
    (VariationUpdated /\ Ncbins >= 1 /\ Nebins >= 1 /\ Nebins <= Ncbins) =>
        \A g \in {Nebins} : \A w \in {Ncbins \div Nebins} :
        \A dt \in {Dt(times, Ncbins, None)} :
        \A k \in DOMAIN Obj.on_y :
            /\ Len(Windows) = w
            /\ Len(PlottedEdges(k)) = w + 2
            /\ Len(Plotted(k)) = w + 2
            /\ \A i \in 0..w :
                  PlottedEdges(k)[i + 1] =
                      RMul(Obj.factor_t,
                           RAdd(RInt(NpMin(times)), RMul(RInt(i * g), dt)))
            /\ PlottedEdges(k)[w + 2] = PlottedEdges(k)[w + 1]

\* windows of two fine bins or more, with fine bins left over at the tail
C25_Witness ==
    /\ VariationUpdated /\ Spread
    /\ Nebins >= 2 /\ Ncbins % Nebins # 0 /\ Ncbins \div Nebins >= 2
    /\ Len(PlottedEdges(1)) = Ncbins \div Nebins + 2

\* C26: for every configuration the TimeVariationPlot constructor accepts
\* (positive numbers of bins or positive widths, known metrics) and particles
\* that do not all arrive at the same time, update computes a group size of
\* one fine bin at least and one evaluation window at least, and returns
\* without a division by zero, also when evaluate_bins > counting_bins.
C26_AtLeastOneWindow ==
    (/\ pc = "done" /\ self # None /\ "evaluate_bins" \in DOMAIN Obj
     /\ Spread
     /\ \A k \in DOMAIN Obj.on_y : Obj.on_y[k] \in Metrics)
        => /\ Nebins >= 1
           /\ raised = None
           /\ Len(Windows) >= 1

\* ------------------------------------------- properties: TimeBinPlot artists
NonDecreasing(y) ==
    \A i \in 1..(Len(y) - 1) : IsFinite(y[i]) /\ IsFinite(y[i + 1]) /\ RLe(y[i], y[i + 1])

\* the number of timestamps that fell into a bin
Binned ==
    NpSum(binned_timeseries(times, TimeBinN(Val(self), times), None,
                            TimeBinRange(Val(self), times), platform).values)

\* C27: in TimeBinPlot.update, for n >= 1 bins, the x and y arrays of each
\* artist have the same length: n + 2 points for "count" and "rate" (a
\* leading and a trailing 0, the last edge repeated), n + 1 points for
\* "cumulative" (from 0, non-decreasing, up to the number of timestamps that
\* fell into a bin, divided by len(times) when relative), and n points at the
\* bin centres for an averaged property.
C27_ArtistArraysAligned ==
    (TimeBinUpdated /\ "exact_bin_time" \in DOMAIN Val(self)
     /\ TimeBinN(Val(self), times) >= 1) =>
        \A nb \in {TimeBinN(Val(self), times)} :
        \A k \in DOMAIN Val(self).on_y :
        \A p \in {Val(self).on_y[k]} :
        \A x \in {Val(Val(artist)[k]).x} : \A y \in {Val(Val(artist)[k]).y} :
            /\ Len(x) = Len(y)
            /\ p \in {"count", "rate"} =>
                  /\ Len(y) = nb + 2
                  /\ y[1] = RInt(0) /\ y[nb + 2] = RInt(0)
                  /\ x[nb + 2] = x[nb + 1]
            /\ p = "cumulative" =>
                  /\ Len(y) = nb + 1
                  /\ y[1] = RInt(0)
                  /\ NonDecreasing(y)
                  /\ y[nb + 1] = IF Val(self).relative
                                 THEN RDiv(RInt(Binned), RInt(Len(times)))
                                 ELSE RInt(Binned)
            /\ p \notin CountBased =>
                  /\ Len(y) = nb
                  /\ \A i \in 1..nb : \A dt \in {Val(annotation)} :
                        x[i] = RMul(Val(self).factor_t,
                                    RAdd(RInt(TMin(times, TimeBinRange(Val(self), times))),
                                         RMul(Rat(2 * i - 1, 2), dt)))

C27_Witness ==
    /\ TimeBinUpdated /\ "exact_bin_time" \in DOMAIN Val(self)
    /\ Val(self).on_y = <<"cumulative">> /\ Val(self).relative
    /\ Spread
    /\ Len(Val(Val(artist)[1]).y) >= 3
    /\ Val(Val(artist)[1]).y[2] = Rat(1, 2)
    /\ Val(Val(artist)[1]).y[3] = Rat(1, 2)

\* ------------------------------------ properties: bin_time against bin_count
\* C28: when bin_time and bin_count are both passed, the same one of the two
\* determines the binning of a TimeBinPlot and of a TimeIntervalPlot and the
\* other is ignored: for timestamps that span one bin_time at least, the
\* data of both plots are those of the plots made without bin_time, or those
\* of the plots made without bin_count.
C28_SameParameterWins ==
    (pc = "done" /\ raised = None /\ artist # None
     /\ args.bin_time # None /\ args.bin_count # None
     /\ NpMax(times) - NpMin(times) >= Val(args.bin_time)
     /\ TimeIntervalPlotRaises(IntervalArgsOf([args EXCEPT !.bin_count = None])) = None)
        => \/ Val(artist) = BothArtists([args EXCEPT !.bin_time = None], times, platform)
           \/ Val(artist) = BothArtists([args EXCEPT !.bin_count = None], times, platform)

\* ---- beta() and the error for particles of different beta0 ----

\* nothing but the particles' beta0 is configured, and beta0 is not constant
OnlyUnequalBeta0 ==
    /\ Obj._beta = None
    /\ ~(Obj._frev # None /\ MixinCircumference(Obj) # None)
    /\ particles # None
    /\ MixinBeta0Raises(Val(particles)) = Some(NotConstantMessage)

\* C29: beta() resolves by a fixed priority: the explicit beta, else
\* frev * circumference / c0, else the particles' beta0; and when only a
\* beta0 that is not constant is available, the error "Particle beta0 is
\* not constant" reaches the caller of beta() and of the arrival-time
\* computation, instead of a None or of a different error.
C29_Beta0ErrorSurfaced ==
    ArrivalDone =>
        /\ Obj._beta # None => KnownBeta = Some(Mono(Val(Obj._beta), 0))
        /\ (Obj._beta = None /\ Obj._frev # None /\ MixinCircumference(Obj) # None)
               => KnownBeta = Some(Mono(RMul(Val(Obj._frev),
                                             Val(MixinCircumference(Obj))), -1))
        /\ (Obj._beta = None /\ ~(Obj._frev # None /\ MixinCircumference(Obj) # None)
            /\ MixinBeta0Raises(Val(particles)) = None)
               => KnownBeta = Some(Mono(RMean(Val(Val(particles).beta0)), 0))
        /\ OnlyUnequalBeta0 =>
               /\ MixinBetaRaises(Obj, particles) = Some(NotConstantMessage)
               /\ raised = Some("ValueError")
               /\ GetMaskedMessage(Obj, Val(particles), mask) = Some(NotConstantMessage)

\* ---- cv and duty as two views of the same quantity ----

\* the square of a plotted value: of a root the number under it
Squared(v) == IF v[1] = "sqrt" THEN v[2] ELSE RMul(v[2], v[2])
\* 1 / (1 + cv^2)
DutyOfCv(v) == Num(RDiv(RInt(1), RAdd(RInt(1), Squared(v))))

\* C30: for every evaluation window with positive mean count the plotted
\* duty factor is 1 / (1 + cv^2) of the same window (mean(N^2) is
\* mean(N)^2 + var(N) with the population variance), and the Poisson
\* references obey the same relation, duty_poisson = 1 / (1 + cv_poisson^2).
C30_DutyFromCv ==
    VariationUpdated =>
        \A win \in {Windows} : \A w \in DOMAIN win :
            NpSum(win[w]) > 0 =>
                /\ MeanSquare(win[w]) = RAdd(RMul(Mean(win[w]), Mean(win[w])),
                                             Variance(win[w]))
                /\ \A k \in DOMAIN Obj.on_y :
                      /\ Obj.on_y[k] = "duty" =>
                            /\ Plotted(k)[w + 1] = DutyOfCv(MetricValue("cv", win[w]))
                            /\ Obj.poisson =>
                                  PlottedPoisson(k)[w + 1]
                                      = DutyOfCv(PoissonValue("cv", win[w]))
                      /\ \A j \in DOMAIN Obj.on_y :
                            (Obj.on_y[k] = "duty" /\ Obj.on_y[j] = "cv") =>
                                /\ Plotted(k)[w + 1] = DutyOfCv(Plotted(j)[w + 1])
                                /\ Obj.poisson =>
                                      PlottedPoisson(k)[w + 1]
                                          = DutyOfCv(PlottedPoisson(j)[w + 1])

C30_Witness ==
    /\ VariationUpdated
    /\ Obj.poisson
    /\ Obj.on_y = <<"cv", "duty">>
    /\ \E w \in DOMAIN Windows :
          /\ Len(Windows[w]) >= 2
          /\ NpSum(Windows[w]) > 0
          /\ ~AllEqual(Windows[w], Windows[w][1])
          /\ Plotted(1)[w + 1] # Sqrt(RInt(0))
          /\ Plotted(2)[w + 1] = DutyOfCv(Plotted(1)[w + 1])
          /\ Plotted(2)[w + 1] # Num(RInt(1))

====
